---------------------------- MODULE Spec2Model ----------------------------
(***************************************************************************)
(* Model of the Segmentation & Alignment Engine of novel-dubber:           *)
(*   - the segment consolidator   (src/src/novel_dubber/asr.py)            *)
(*   - the fuzzy aligner          (src/src/novel_dubber/alignment.py)      *)
(*   - the diarization merger     (src/src/novel_dubber/merge.py)          *)
(*                                                                         *)
(* Text is a sequence of characters, a character a one-element string; the *)
(* token "U3042" stands for one character of the kana/kanji range.  Time   *)
(* is counted in ticks of 0.1 ms, so the 0.001 s floor of the code is Eps  *)
(* ticks.  Python floats are modelled as exact rationals: a value computed *)
(* by a division is kept as a pair <<numerator, denominator>>.             *)
(***************************************************************************)
EXTENDS Integers, Sequences, FiniteSets, TLC

(***************************************************************************)
(* Bounds of the model.                                                    *)
(***************************************************************************)
MaxSpans == 2      \* raw ASR spans read by one run
MaxTime == 2       \* span times range over 0..MaxTime seconds
MaxReruns == 2     \* invocations of a stage after the first

(***************************************************************************)
(* Units.                                                                  *)
(***************************************************************************)
Eps == 10                      \* 0.001 s, the floor max(0.001, ...) of the code
Sec == 1000 * Eps              \* one second

None == [none |-> TRUE]

(***************************************************************************)
(* Output files: whether the file exists, and the records it holds.        *)
(***************************************************************************)
NoFile == [exists |-> FALSE, items |-> <<>>]

OutputExistsNever(file) == FALSE

\* Path.exists()
OutputExists(file) == file.exists

\* utils.append_jsonl: open(path, "a") creates the file and adds the items
AppendJsonl(file, items) == [exists |-> TRUE, items |-> file.items \o items]

\* utils.write_jsonl: open(path, "w") replaces the content by the items
WriteJsonl(file, items) == [exists |-> TRUE, items |-> items]

Max2(a, b) == IF a >= b THEN a ELSE b
Min2(a, b) == IF a <= b THEN a ELSE b
SetMax(S) == CHOOSE x \in S : \A y \in S : y <= x
SetMin(S) == CHOOSE x \in S : \A y \in S : x <= y
\* math.ceil(n / d) for n >= 0, d > 0
CeilDiv(n, d) == (n + d - 1) \div d

RECURSIVE Flatten(_)
Flatten(ss) == IF ss = <<>> THEN <<>> ELSE Head(ss) \o Flatten(Tail(ss))

\* Rationals <<n, d>> with d > 0.
RatLe(p, q) == p[1] * q[2] <= q[1] * p[2]
RatLt(p, q) == p[1] * q[2] < q[1] * p[2]
RatOfInt(n) == <<n, 1>>
RatSub(p, q) == <<p[1] * q[2] - q[1] * p[2], p[2] * q[2]>>

(***************************************************************************)
(* Character classes.                                                      *)
(***************************************************************************)
WhiteSpace == {" "}                      \* what str.strip() removes
SpaceChars == {" "}                      \* _SPACE_RE
JpChars == {"U3042"}                     \* _JP_CHAR_RE
END_PUNCT == {".", "!", "?"}             \* _END_PUNCT (ASCII members)
END_QUOTES == {"'"}                      \* _END_QUOTES
COMMA_PUNCT == {",", ";"}                \* _COMMA_PUNCT
Dashes == {"-"}                          \* the suffixes of a.endswith(("-", ...))
KeepChars == {"a", "b", "c", "d", "e", "s", "A", "B", "U3042"}   \* _KEEP_RE

Lower(ch) == CASE ch = "A" -> "a" [] ch = "B" -> "b" [] OTHER -> ch

\* str.strip(), str.rstrip(), str.lstrip()
Strip(t) ==
    LET idx == {i \in 1..Len(t) : t[i] \notin WhiteSpace}
    IN IF idx = {} THEN <<>> ELSE SubSeq(t, SetMin(idx), SetMax(idx))
RStrip(t) ==
    LET idx == {i \in 1..Len(t) : t[i] \notin WhiteSpace}
    IN IF idx = {} THEN <<>> ELSE SubSeq(t, 1, SetMax(idx))
LStrip(t) ==
    LET idx == {i \in 1..Len(t) : t[i] \notin WhiteSpace}
    IN IF idx = {} THEN <<>> ELSE SubSeq(t, SetMin(idx), Len(t))

\* _normalize(text, use_kana = False): lower-case, keep the _KEEP_RE runs
RECURSIVE Normalize(_)
Normalize(t) ==
    IF t = <<>> THEN <<>>
    ELSE LET c == Lower(Head(t))
         IN (IF c \in KeepChars THEN <<c>> ELSE <<>>) \o Normalize(Tail(t))

(***************************************************************************)
(* asr.py: text helpers of the consolidator.                               *)
(***************************************************************************)
\* _SENTENCE_END_RE = r"[.!?]+[quotes]?\\s*$" searched in text.strip(): in
\* the raw string "\\s*" is a literal backslash followed by any number of
\* letters s, so the text has to end  <punct>+ <quote>? \ s*  to match.
IsSentenceEnd(text) ==
    LET u == Strip(text)
        nonS == {i \in 1..Len(u) : u[i] # "s"}
        v == IF nonS = {} THEN <<>> ELSE SubSeq(u, 1, SetMax(nonS))
        w == IF v = <<>> THEN <<>> ELSE SubSeq(v, 1, Len(v) - 1)
        x == IF w # <<>> /\ w[Len(w)] \in END_QUOTES
             THEN SubSeq(w, 1, Len(w) - 1) ELSE w
    IN /\ v # <<>>
       /\ v[Len(v)] = "\\"
       /\ x # <<>>
       /\ x[Len(x)] \in END_PUNCT

HasJp(t) == \E i \in 1..Len(t) : t[i] \in JpChars

JoinTextOverwrite(a, b) == b
JoinText(a, b) ==
    IF a = <<>> THEN b
    ELSE IF HasJp(a) \/ HasJp(b) THEN a \o b
    ELSE IF a[Len(a)] \in Dashes THEN a \o b
    ELSE RStrip(a) \o <<" ">> \o LStrip(b)

\* the run of closing quotes that starts at index j
RECURSIVE QuoteRunEnd(_, _)
QuoteRunEnd(text, j) ==
    IF j <= Len(text) /\ text[j] \in END_QUOTES THEN QuoteRunEnd(text, j + 1) ELSE j

AppendIfNonEmpty(parts, piece) == IF piece = <<>> THEN parts ELSE Append(parts, piece)

RECURSIVE SplitSentencesLoop(_, _, _, _)
SplitSentencesLoop(text, i, buf, parts) ==
    IF i > Len(text) THEN AppendIfNonEmpty(parts, Strip(buf))
    ELSE IF text[i] \in END_PUNCT
         THEN LET j == QuoteRunEnd(text, i + 1)
                  sentence == Strip(buf \o SubSeq(text, i, j - 1))
              IN SplitSentencesLoop(text, j, <<>>, AppendIfNonEmpty(parts, sentence))
         ELSE SplitSentencesLoop(text, i + 1, Append(buf, text[i]), parts)

SplitSentences(text) == SplitSentencesLoop(text, 1, <<>>, <<>>)

RECURSIVE SplitByCommasLoop(_, _, _, _)
SplitByCommasLoop(text, i, buf, parts) ==
    IF i > Len(text) THEN AppendIfNonEmpty(parts, Strip(buf))
    ELSE IF text[i] \in COMMA_PUNCT
         THEN SplitByCommasLoop(text, i + 1, <<>>,
                                AppendIfNonEmpty(parts, Strip(Append(buf, text[i]))))
         ELSE SplitByCommasLoop(text, i + 1, Append(buf, text[i]), parts)

SplitByCommas(text) ==
    LET parts == SplitByCommasLoop(text, 1, <<>>, <<>>)
    IN IF parts # <<>> THEN parts ELSE <<text>>

\* _SPACE_RE.split(text), each field stripped, the empty fields dropped
RECURSIVE SpaceFields(_, _, _, _)
SpaceFields(text, i, buf, parts) ==
    IF i > Len(text) THEN AppendIfNonEmpty(parts, Strip(buf))
    ELSE IF text[i] \in SpaceChars
         THEN SpaceFields(text, i + 1, <<>>, AppendIfNonEmpty(parts, Strip(buf)))
         ELSE SpaceFields(text, i + 1, Append(buf, text[i]), parts)

MinChars == 3      \* _split_by_spaces(text, min_chars=3)

RECURSIVE MergeShortFields(_, _)
MergeShortFields(raw, acc) ==
    IF raw = <<>> THEN acc
    ELSE LET part == Head(raw)
         IN IF acc # <<>> /\ Len(part) < MinChars
            THEN MergeShortFields(Tail(raw),
                     [acc EXCEPT ![Len(acc)] = acc[Len(acc)] \o part])
            ELSE MergeShortFields(Tail(raw), Append(acc, part))

SplitBySpaces(text) ==
    LET raw == SpaceFields(text, 1, <<>>, <<>>)
    IN IF Len(raw) <= 1 THEN <<text>> ELSE MergeShortFields(raw, <<>>)

RECURSIVE LengthChunks(_, _, _)
LengthChunks(text, i, size) ==
    IF i > Len(text) THEN <<>>
    ELSE AppendIfNonEmpty(<<>>, Strip(SubSeq(text, i, Min2(Len(text), i + size - 1))))
         \o LengthChunks(text, i + size, size)

SplitByLength(text0, parts) ==
    IF parts <= 1 THEN <<text0>>
    ELSE LET text == Strip(text0)
         IN IF text = <<>> THEN <<>>
            ELSE LengthChunks(text, 1, Max2(1, CeilDiv(Len(text), parts)))

RECURSIVE TotalLen(_)
TotalLen(ss) == IF ss = <<>> THEN 0 ELSE Len(Head(ss)) + TotalLen(Tail(ss))

(***************************************************************************)
(* asr.py: _split_segment_by_sentence.  A merged segment has integer times; *)
(* the pieces get rational times start + duration * (chars before) / total. *)
(***************************************************************************)
InitialSentencesSpacesFirst(text) ==
    IF \E i \in 1..Len(text) : text[i] \in SpaceChars
    THEN SplitBySpaces(text)
    ELSE IF SplitSentences(text) = <<>> THEN <<text>> ELSE SplitSentences(text)

\* lines 115-119
InitialSentences(text) ==
    LET s0 == SplitSentences(text)
        s1 == IF s0 = <<>> THEN <<text>> ELSE s0
    IN IF Len(s1) = 1 /\ (\E i \in 1..Len(text) : text[i] \in SpaceChars)
       THEN SplitBySpaces(text) ELSE s1

\* lines 124-132: the pieces one sentence contributes to `refined`
RefineSentence(sent, duration, total_len, max_segment_sec) ==
    IF duration * Len(sent) > max_segment_sec * total_len
    THEN LET chunks == SplitByCommas(sent)
         IN IF Len(chunks) = 1
            THEN SplitByLength(sent,
                     Max2(2, CeilDiv(duration * Len(sent), total_len * max_segment_sec)))
            ELSE chunks
    ELSE <<sent>>

RefinedPieces(text, duration, max_segment_sec) ==
    LET sentences == InitialSentences(text)
        total_len == Max2(1, TotalLen(sentences))
        refined == Flatten([k \in 1..Len(sentences) |->
                       RefineSentence(sentences[k], duration, total_len, max_segment_sec)])
    IN IF refined = <<>> THEN <<text>> ELSE refined

\* lines 137-155: the timing of the pieces
PieceEnd(idx, n, cur_after, end) == IF idx = n THEN RatOfInt(end) ELSE cur_after

TimedPieces(refined, start, end, duration, confidence) ==
    LET total_len == Max2(1, TotalLen(refined))
        cum(k) == TotalLen(SubSeq(refined, 1, k))
        at(k) == <<start * total_len + duration * cum(k), total_len>>
    IN [idx \in 1..Len(refined) |->
          [start |-> at(idx - 1),
           end |-> PieceEnd(idx, Len(refined), at(idx), end),
           text |-> refined[idx],
           confidence |-> confidence]]

SplitSegmentBySentence(segment, config) ==
    LET text == Strip(segment.text)
        duration == Max2(Eps, segment.end - segment.start)
    IN IF text = <<>> THEN <<>>
       ELSE TimedPieces(RefinedPieces(text, duration, config.max_segment_sec),
                        segment.start, segment.end, duration, segment.confidence)

(***************************************************************************)
(* asr.py: _merge_asr_segments, one loop iteration at a time.              *)
(***************************************************************************)
ShouldBreakIgnoringMin(acc, start, end, config) ==
    LET gap == start - acc.end
        cur_len == acc.end - acc.start
        dur == Max2(0, end - start)
    IN \/ gap > config.merge_pause_sec
       \/ cur_len + dur > config.max_segment_sec

ShouldBreakOnPauseOnly(acc, start, end, config) ==
    start - acc.end > config.merge_pause_sec

\* lines 181-185
ShouldBreak(acc, start, end, config) ==
    LET gap == start - acc.end
        cur_len == acc.end - acc.start
        dur == Max2(0, end - start)
    IN \/ gap > config.merge_pause_sec
       \/ (cur_len >= config.min_segment_sec /\ cur_len + dur > config.max_segment_sec)

\* lines 206: the eager flush after an append
ShouldFlush(text, acc, config) ==
    IsSentenceEnd(text) /\ acc.end - acc.start >= config.min_segment_sec

\* the record appended to `merged` (lines 188-195, 207-214, 220-227)
Emit(acc, csum, dsum) ==
    [start |-> acc.start, end |-> acc.end, text |-> acc.text,
     confidence |-> <<csum, Max2(Eps, dsum)>>]

\* lines 201-202
Extend(acc, text, end) == [acc EXCEPT !.text = JoinText(acc.text, text), !.end = end]

\* list.sort(key = start): a stable insertion sort
RECURSIVE InsertByStart(_, _)
InsertByStart(sorted, x) ==
    IF sorted = <<>> THEN <<x>>
    ELSE IF sorted[Len(sorted)].start <= x.start THEN Append(sorted, x)
    ELSE Append(InsertByStart(SubSeq(sorted, 1, Len(sorted) - 1), x), sorted[Len(sorted)])

RECURSIVE SortByStart(_)
SortByStart(s) ==
    IF s = <<>> THEN <<>>
    ELSE InsertByStart(SortByStart(SubSeq(s, 1, Len(s) - 1)), s[Len(s)])

(***************************************************************************)
(* alignment.py: similarity.  difflib.SequenceMatcher(None, a, b).ratio()  *)
(* is 2 * M / (len(a) + len(b)), M the total size of the matching blocks:  *)
(* the longest common block (the earliest in a, then the earliest in b     *)
(* among the longest), then the same to its left and to its right.  The    *)
(* strings of the model are far below the 200 characters at which difflib  *)
(* starts to discard popular characters.  A score is a rational <<n, d>>.  *)
(***************************************************************************)
\* the length of the common run of a from i and b from j, inside the ranges
RECURSIVE CommonRun(_, _, _, _, _, _)
CommonRun(a, b, i, j, ahi, bhi) ==
    IF i <= ahi /\ j <= bhi /\ a[i] = b[j]
    THEN 1 + CommonRun(a, b, i + 1, j + 1, ahi, bhi) ELSE 0

\* SequenceMatcher.find_longest_match(alo, ahi, blo, bhi), 1-based inclusive:
\* the longest common block, the earliest in a and then the earliest in b
\* among the longest.  A block of size k at <<i, j>> is ranked by the
\* number k * Rank^2 + (Rank - 1 - i) * Rank + (Rank - 1 - j).
FindLongestMatch(a, b, alo, ahi, blo, bhi) ==
    LET Rank == Len(a) + Len(b) + 2
        ranks == { CommonRun(a, b, c[1], c[2], ahi, bhi) * Rank * Rank
                       + (Rank - 1 - c[1]) * Rank + (Rank - 1 - c[2]) :
                   c \in {d \in (alo..ahi) \X (blo..bhi) : a[d[1]] = b[d[2]]} }
    IN IF ranks = {} THEN [i |-> alo, j |-> blo, k |-> 0]
       ELSE \* the block of the highest rank
            LET top == SetMax(ranks)
            IN [i |-> Rank - 1 - ((top \div Rank) % Rank),
                j |-> Rank - 1 - (top % Rank),
                k |-> top \div (Rank * Rank)]

\* the total size of SequenceMatcher.get_matching_blocks()
RECURSIVE MatchingSize(_, _, _, _, _, _)
MatchingSize(a, b, alo, ahi, blo, bhi) ==
    IF alo > ahi \/ blo > bhi THEN 0
    ELSE LET m == FindLongestMatch(a, b, alo, ahi, blo, bhi)
         IN IF m.k = 0 THEN 0
            ELSE m.k + MatchingSize(a, b, alo, m.i - 1, blo, m.j - 1)
                     + MatchingSize(a, b, m.i + m.k, ahi, m.j + m.k, bhi)

Similarity(a, b) ==
    IF a = <<>> \/ b = <<>> THEN <<0, 1>>
    ELSE <<2 * MatchingSize(a, b, 1, Len(a), 1, Len(b)), Len(a) + Len(b)>>

\* score >= 0.98, the early exit of the search
IsExactEnough(score) == 100 * score[1] >= 98 * score[2]
\* score >= min_score, min_score in units of 0.0001
MeetsMinScore(score, min_score) == 10000 * score[1] >= min_score * score[2]
\* round(score, 4), in units of 0.0001
Round4(score) == (2 * 10000 * score[1] + score[2]) \div (2 * score[2])

(***************************************************************************)
(* alignment.py: the search of the best candidate.  Indices are those of   *)
(* the code (0-based); unit i of the code is element i + 1 of the sequence.*)
(***************************************************************************)
RECURSIVE JoinRange(_, _, _)
\* "".join(units[i .. j]) of 0-based inclusive indices
JoinRange(texts, i, j) ==
    IF i > j THEN <<>> ELSE texts[i + 1] \o JoinRange(texts, i + 1, j)

\* keep the candidate when it is as good as the best so far
KeepBestOrLatest(best, cand) ==
    IF best = None \/ RatLe(best.score, cand.score) THEN cand ELSE best

\* lines 72-73, 101-102: keep the candidate when it beats the best so far
KeepBest(best, cand) ==
    IF best = None \/ RatLt(best.score, cand.score) THEN cand ELSE best

\* lines 74-75, 103-104: stop the whole search
StopsSearch(score) == IsExactEnough(score)

\* history: the number of _similarity calls the search has made so far
Scored(best) == IF best = None THEN 0 ELSE best.scored

IsUnmatchableNever(norm_text) == FALSE

\* lines 62-63, 91-92: "if not norm_text: return None"
IsUnmatchable(norm_text) == norm_text = <<>>

\* lines 66, 95: range(start_idx, end_limit) starts the scan at the cursor
ScanStartFromZero(start_idx) == 0
ScanStart(start_idx) == start_idx

BestMatchWords(text, words, words_norm, start_idx, search_window, max_words) ==
    LET end_limit == Min2(Len(words_norm), start_idx + search_window)
        norm_text == Normalize(text)
        raw == [k \in 1..Len(words) |-> words[k].word]
        RECURSIVE scan(_, _, _)
        scan(i, j, best) ==
            IF i >= end_limit THEN best
            ELSE IF j >= Min2(end_limit, i + max_words) THEN scan(i + 1, i + 1, best)
            ELSE LET score == Similarity(norm_text, JoinRange(words_norm, i, j))
                     cand == [start_idx |-> i, end_idx |-> j, score |-> score,
                              text |-> JoinRange(raw, i, j), scored |-> Scored(best) + 1]
                     kept == [KeepBest(best, cand) EXCEPT !.scored = Scored(best) + 1]
                 IN IF StopsSearch(score) THEN kept ELSE scan(i, j + 1, kept)
    IN IF start_idx >= Len(words_norm) THEN None
       ELSE IF IsUnmatchable(norm_text) THEN None
       ELSE scan(ScanStart(start_idx), ScanStart(start_idx), None)

BestMatchSegments(text, segments, start_idx, search_window, max_combine) ==
    LET end_limit == Min2(Len(segments), start_idx + search_window)
        norm_text == Normalize(text)
        raw == [k \in 1..Len(segments) |-> segments[k].text]
        RECURSIVE scan(_, _, _)
        scan(i, j, best) ==
            IF i >= end_limit THEN best
            ELSE IF j >= Min2(end_limit, i + max_combine) THEN scan(i + 1, i + 1, best)
            ELSE LET cand_text == JoinRange(raw, i, j)
                     score == Similarity(norm_text, Normalize(cand_text))
                     cand == [start_idx |-> i, end_idx |-> j, score |-> score,
                              text |-> cand_text, scored |-> Scored(best) + 1]
                     kept == [KeepBest(best, cand) EXCEPT !.scored = Scored(best) + 1]
                 IN IF StopsSearch(score) THEN kept ELSE scan(i, j + 1, kept)
    IN IF start_idx >= Len(segments) THEN None
       ELSE IF IsUnmatchable(norm_text) THEN None
       ELSE scan(ScanStart(start_idx), ScanStart(start_idx), None)

\* no offset: the text starts where the audio starts
FindTextOffsetZero(text_segs, wnorm, config) == 0

\* _find_text_offset: the index (0-based) of the best window of text segments
FindTextOffset(text_segs, wnorm, config) ==
    LET window_size == Max2(1, config.offset_window_segments)
        n_audio == Min2(Len(wnorm), Max2(1, config.offset_search_words))
        audio_norm == JoinRange(wnorm, 0, n_audio - 1)
        limit == Max2(0, Len(text_segs) - window_size)
        texts == [k \in 1..Len(text_segs) |-> text_segs[k].text]
        window_norm(i) ==
            Normalize(JoinRange(texts, i, Min2(Len(texts), i + window_size) - 1))
        RECURSIVE slide(_, _, _)
        slide(i, best_idx, best_score) ==
            IF i > limit THEN best_idx
            ELSE LET score == Similarity(window_norm(i), audio_norm)
                 IN IF window_norm(i) # <<>> /\ RatLt(best_score, score)
                    THEN slide(i + 1, i, score)
                    ELSE slide(i + 1, best_idx, best_score)
    IN IF text_segs = <<>> \/ wnorm = <<>> THEN 0
       ELSE IF audio_norm = <<>> THEN 0
       ELSE slide(0, 0, <<0, 1>>)

FilterWordsKeepAll(ws) == ws

\* lines 235-241: the words whose normalized form is not empty
RECURSIVE FilterWords(_)
FilterWords(ws) ==
    IF ws = <<>> THEN <<>>
    ELSE (IF Normalize(Head(ws).word) = <<>> THEN <<>> ELSE <<Head(ws)>>)
         \o FilterWords(Tail(ws))

\* the cursor sent back to the first unit by a miss
CursorAfterMissRestart(cur_idx, n_units, advance_raw) == 0

CursorAfterMissUnclamped(cur_idx, n_units, advance_raw) == cur_idx + Max2(0, advance_raw)

\* lines 161, 252 and 209-210, 311-312: the cursor after a miss
CursorAfterMiss(cur_idx, n_units, advance_raw) ==
    LET advance_on_miss == Max2(0, advance_raw)
    IN IF advance_on_miss # 0 THEN Min2(n_units, cur_idx + advance_on_miss) ELSE cur_idx

\* the cursor left on the last unit of the match
CursorAfterMatchOnEnd(match) == match.end_idx

\* the cursor moved past the first unit of the match only
CursorAfterMatchOnStart(match) == match.start_idx + 1

\* line 195, 297: the cursor after a match
CursorAfterMatch(match) == match.end_idx + 1

AlignedRecordEndOfFirst(seg, match, units, mode) ==
    LET upd == [start |-> units[match.start_idx + 1].start,
                end |-> units[match.start_idx + 1].end, aligned |-> TRUE,
                match_score |-> Round4(match.score), asr_text |-> match.text]
    IN IF mode = "segments"
       THEN ([asr_start_idx |-> match.start_idx, asr_end_idx |-> match.end_idx] @@ upd) @@ seg
       ELSE ([word_start_idx |-> match.start_idx, word_end_idx |-> match.end_idx] @@ upd) @@ seg

\* the record written for a text segment that was matched (lines 182-193
\* and 284-295): out = dict(seg), then out.update(...), whose keys win
AlignedRecord(seg, match, units, mode) ==
    LET start_ts == units[match.start_idx + 1].start
        end_ts == units[match.end_idx + 1].end
        upd == [start |-> start_ts, end |-> end_ts, aligned |-> TRUE,
                match_score |-> Round4(match.score), asr_text |-> match.text]
    IN IF mode = "segments"
       THEN ([asr_start_idx |-> match.start_idx, asr_end_idx |-> match.end_idx] @@ upd) @@ seg
       ELSE ([word_start_idx |-> match.start_idx, word_end_idx |-> match.end_idx] @@ upd) @@ seg

\* the record without the fields of the text segment
UnalignedRecordBare(seg, match, mode) ==
    LET upd == [aligned |-> FALSE,
                match_score |-> IF match # None THEN Round4(match.score) ELSE 0,
                asr_text |-> IF match # None THEN match.text ELSE <<>>]
    IN IF mode = "segments"
       THEN [asr_start_idx |-> -1, asr_end_idx |-> -1] @@ upd
       ELSE [word_start_idx |-> -1, word_end_idx |-> -1] @@ upd

\* the record written for a text segment that was not matched (lines
\* 198-207, 258-267 and 300-309)
UnalignedRecord(seg, match, mode) ==
    LET upd == [aligned |-> FALSE,
                match_score |-> IF match # None THEN Round4(match.score) ELSE 0,
                asr_text |-> IF match # None THEN match.text ELSE <<>>]
    IN IF mode = "segments"
       THEN ([asr_start_idx |-> -1, asr_end_idx |-> -1] @@ upd) @@ seg
       ELSE ([word_start_idx |-> -1, word_end_idx |-> -1] @@ upd) @@ seg

\* lines 178, 280
IsHit(match, min_score) == match # None /\ MeetsMinScore(match.score, min_score)

(***************************************************************************)
(* Inputs of the consolidator.                                             *)
(***************************************************************************)
AsrTexts ==
    { <<" ">>,                                  \* empty after strip
      <<"a">>,
      <<"a", ".", "'", "b">>,                   \* two sentences, a closing quote
      <<"a", ".", ".">>,                        \* a piece of punctuation only
      <<"a", "a", "a", ",", "b">>,              \* a comma
      <<"a", "a", "a", "a">>,                   \* nothing to split on
      <<"a", " ", "b", "c", "d">>,              \* space-delimited words
      <<"a", "-">>,                             \* dash continuation
      <<"U3042">>,                              \* script without word spaces
      <<"a", ".", "\\">> }                      \* matches _SENTENCE_END_RE

AsrTimes == {t * Sec : t \in 0..MaxTime}
ConfValues == {90}                              \* confidence, in hundredths

AudioConfigs ==
    { [min_segment_sec |-> 1 * Sec, max_segment_sec |-> (3 * Sec) \div 2,
       merge_pause_sec |-> (6 * Sec) \div 10] }

VARIABLES
    asr_pc,          \* position in run_asr: read, merge, split, write, done
    audio_cfg,       \* config.audio
    segments_all,    \* run_asr: the spans read so far, then sorted
    merge_i,         \* _merge_asr_segments: index of the next span
    cur,             \* _merge_asr_segments: the accumulator, or None
    conf_sum,
    dur_sum,
    merged,          \* _merge_asr_segments: the merged segments
    flush_why,       \* history: why each merged segment was closed
    split_i,         \* _split_segments: index of the next merged segment
    split_segments,  \* _split_segments: results
    asr_out          \* the file asr_segments.jsonl

asr_vars == <<asr_pc, audio_cfg, segments_all, merge_i, cur, conf_sum, dur_sum,
              merged, flush_why, split_i, split_segments, asr_out>>

VARIABLES
    al_pc,           \* position in align_text_to_asr / align_text_to_words
    al_mode,         \* "words" when asr_words.jsonl exists, else "segments"
    al_cfg,          \* config.alignment
    text_segments,   \* the author's text segments
    asr_segments,    \* segment mode: the timed units
    words,           \* word mode: the timed units, filtered once prepared
    words_norm,      \* word mode: their normalized forms
    offset_idx,      \* word mode: result of _find_text_offset
    cursor,
    text_i,          \* index (1-based) of the next text segment
    results,
    cursor_log,      \* history: the cursor before each text segment
    match_log,       \* history: the search result for each text segment
    al_out           \* the file out_path

al_vars == <<al_pc, al_mode, al_cfg, text_segments, asr_segments, words, words_norm,
             offset_idx, cursor, text_i, results, cursor_log, match_log, al_out>>

VARIABLES
    mg_pc,           \* position in merge_asr_diarization: sort, merge, write, done
    overlap_threshold, \* config.diarization.overlap_threshold, as <<num, den>>
    mg_asr,          \* the ASR segments read from asr_path
    diar_segments,   \* the diarization turns read from diar_path
    mg_idx,          \* index (0-based, as enumerate) of the next ASR segment
    mg_merged,       \* the records built so far
    mg_out           \* the file out_path

diar_vars == <<mg_pc, overlap_threshold, mg_asr, diar_segments, mg_idx, mg_merged, mg_out>>

VARIABLES
    stage,           \* the stage this run of the pipeline invokes
    invocations      \* history: how often the stage was invoked again

resume_vars == <<stage, invocations>>

VARIABLES
    tx_pc,           \* position in build_text_segments: parse, pause, done
    tx_cfg,          \* config.text_dub
    tx_text,         \* parse_text_segments: the text, line ends replaced
    tx_i,            \* parse_text_segments: i
    buf,
    mode,
    stack,
    tx_segments,     \* parse_text_segments: segments
    tx_results,      \* build_text_segments: results / add_pause_rules: segments
    pause_i,         \* add_pause_rules: index of the next segment
    tx_out,          \* the file at out_path
    tx_trace         \* history: what each position of the text was read as

text_vars == <<tx_pc, tx_cfg, tx_text, tx_i, buf, mode, stack, tx_segments,
               tx_results, pause_i, tx_out, tx_trace>>

vars == <<asr_vars, al_vars, diar_vars, resume_vars, text_vars>>

NoTrace ==
    [kinds |-> <<>>, depths |-> <<>>, buf_from |-> <<>>, seg_from |-> <<>>,
     stack_from |-> <<>>, pairs |-> {}]

TextIdle ==
    /\ tx_pc = "idle"
    /\ tx_cfg = None
    /\ tx_text = <<>>
    /\ tx_i = 0
    /\ buf = <<>>
    /\ mode = "NARRATION"
    /\ stack = <<>>
    /\ tx_segments = <<>>
    /\ tx_results = <<>>
    /\ pause_i = 1
    /\ tx_out = NoFile
    /\ tx_trace = NoTrace

DiarIdle ==
    /\ mg_pc = "idle"
    /\ overlap_threshold = None
    /\ mg_asr = <<>>
    /\ diar_segments = <<>>
    /\ mg_idx = 0
    /\ mg_merged = <<>>
    /\ mg_out = NoFile

AsrIdle ==
    /\ asr_pc = "idle"
    /\ audio_cfg = None
    /\ segments_all = <<>>
    /\ merge_i = 1
    /\ cur = None
    /\ conf_sum = 0
    /\ dur_sum = 0
    /\ merged = <<>>
    /\ flush_why = <<>>
    /\ split_i = 1
    /\ split_segments = <<>>
    /\ asr_out = NoFile

AlignIdle ==
    /\ al_pc = "idle"
    /\ al_mode = "segments"
    /\ al_cfg = None
    /\ text_segments = <<>>
    /\ asr_segments = <<>>
    /\ words = <<>>
    /\ words_norm = <<>>
    /\ offset_idx = 0
    /\ cursor = 0
    /\ text_i = 1
    /\ results = <<>>
    /\ cursor_log = <<>>
    /\ match_log = <<>>
    /\ al_out = NoFile

InitAsr ==
    /\ asr_pc = "read"
    /\ audio_cfg \in AudioConfigs
    /\ segments_all = <<>>
    /\ merge_i = 1
    /\ cur = None
    /\ conf_sum = 0
    /\ dur_sum = 0
    /\ merged = <<>>
    /\ flush_why = <<>>
    /\ split_i = 1
    /\ split_segments = <<>>
    /\ asr_out = NoFile
    /\ AlignIdle
    /\ DiarIdle
    /\ stage = "asr"
    /\ invocations = 0
    /\ TextIdle

\* run_asr lines 284-295: one more span of a chunk's output.  The chunks of
\* the manifest and the spans of a chunk come in time order.
ReadSegment ==
    /\ asr_pc = "read"
    /\ ~OutputExists(asr_out)
    /\ Len(segments_all) < MaxSpans
    /\ \E start \in AsrTimes, end \in AsrTimes, text \in AsrTexts, conf \in ConfValues :
          /\ end >= start
          /\ segments_all # <<>> => segments_all[Len(segments_all)].start <= start
          /\ segments_all' = Append(segments_all,
                 [start |-> start, end |-> end, text |-> Strip(text), confidence |-> conf])
    /\ UNCHANGED <<al_vars, diar_vars, resume_vars, text_vars>>
    /\ UNCHANGED <<asr_pc, audio_cfg, merge_i, cur, conf_sum, dur_sum, merged,
                   flush_why, split_i, split_segments, asr_out>>

\* run_asr lines 311-315: sort, then enter _merge_asr_segments
StartMerge ==
    /\ asr_pc = "read"
    /\ ~OutputExists(asr_out)
    /\ segments_all' = SortByStart(segments_all)
    /\ asr_pc' = "merge"
    /\ UNCHANGED <<al_vars, diar_vars, resume_vars, text_vars>>
    /\ UNCHANGED <<audio_cfg, merge_i, cur, conf_sum, dur_sum, merged, flush_why,
                   split_i, split_segments, asr_out>>

\* _merge_asr_segments lines 166-217: the locals after one iteration of the
\* loop on the span seg.  why is the history of the reasons to flush.
MergeOne(acc, seg, config) ==
    LET text == Strip(seg.text)
        dur == Max2(0, seg.end - seg.start)
        fresh == [start |-> seg.start, end |-> seg.end, text |-> text]
    IN IF text = <<>>
       THEN acc
       ELSE IF acc.cur = None
       THEN [acc EXCEPT !.cur = fresh,
                        !.conf_sum = seg.confidence * dur,
                        !.dur_sum = dur]
       ELSE IF ShouldBreak(acc.cur, seg.start, seg.end, config)
       THEN [cur |-> fresh,
             conf_sum |-> seg.confidence * dur,
             dur_sum |-> dur,
             merged |-> Append(acc.merged, Emit(acc.cur, acc.conf_sum, acc.dur_sum)),
             why |-> Append(acc.why,
                        IF seg.start - acc.cur.end > config.merge_pause_sec
                        THEN "pause" ELSE "length")]
       ELSE LET joined == Extend(acc.cur, text, seg.end)
                csum == acc.conf_sum + seg.confidence * dur
                dsum == acc.dur_sum + dur
            IN IF ShouldFlush(text, joined, config)
               THEN [cur |-> None,
                     conf_sum |-> 0,
                     dur_sum |-> 0,
                     merged |-> Append(acc.merged, Emit(joined, csum, dsum)),
                     why |-> Append(acc.why, "sentence")]
               ELSE [acc EXCEPT !.cur = joined, !.conf_sum = csum, !.dur_sum = dsum]

\* lines 219-229: the flush at the end of the input
MergeLast(acc) ==
    IF acc.cur # None
    THEN [acc EXCEPT !.merged = Append(@, Emit(acc.cur, acc.conf_sum, acc.dur_sum)),
                     !.why = Append(@, "end")]
    ELSE acc

\* one iteration of the loop of _merge_asr_segments
MergeStep ==
    /\ asr_pc = "merge"
    /\ merge_i <= Len(segments_all)
    /\ \E after \in {MergeOne([cur |-> cur, conf_sum |-> conf_sum, dur_sum |-> dur_sum,
                               merged |-> merged, why |-> flush_why],
                              segments_all[merge_i], audio_cfg)} :
          /\ cur' = after.cur
          /\ conf_sum' = after.conf_sum
          /\ dur_sum' = after.dur_sum
          /\ merged' = after.merged
          /\ flush_why' = after.why
    /\ merge_i' = merge_i + 1
    /\ UNCHANGED <<al_vars, diar_vars, resume_vars, text_vars>>
    /\ UNCHANGED <<asr_pc, audio_cfg, segments_all, split_i, split_segments, asr_out>>

\* _merge_asr_segments lines 219-229: the flush at the end of the input
MergeFinish ==
    /\ asr_pc = "merge"
    /\ merge_i > Len(segments_all)
    /\ \E after \in {MergeLast([cur |-> cur, conf_sum |-> conf_sum, dur_sum |-> dur_sum,
                                merged |-> merged, why |-> flush_why])} :
          /\ merged' = after.merged
          /\ flush_why' = after.why
    /\ asr_pc' = "split"
    /\ UNCHANGED <<al_vars, diar_vars, resume_vars, text_vars>>
    /\ UNCHANGED <<audio_cfg, segments_all, merge_i, cur, conf_sum, dur_sum,
                   split_i, split_segments, asr_out>>

\* _split_segments lines 234-235: one iteration of the loop
SplitStep ==
    /\ asr_pc = "split"
    /\ split_i <= Len(merged)
    /\ split_segments' = split_segments \o SplitSegmentBySentence(merged[split_i], audio_cfg)
    /\ split_i' = split_i + 1
    /\ UNCHANGED <<al_vars, diar_vars, resume_vars, text_vars>>
    /\ UNCHANGED <<asr_pc, audio_cfg, segments_all, merge_i, cur, conf_sum, dur_sum,
                   merged, flush_why, asr_out>>

\* run_asr line 323: the split pass is over, the segments are written
WriteSegments ==
    /\ asr_pc = "split"
    /\ split_i > Len(merged)
    /\ ~OutputExists(asr_out)
    /\ asr_out' = AppendJsonl(asr_out, split_segments)
    /\ asr_pc' = "done"
    /\ UNCHANGED <<al_vars, diar_vars, resume_vars, text_vars>>
    /\ UNCHANGED <<audio_cfg, segments_all, merge_i, cur, conf_sum, dur_sum,
                   merged, flush_why, split_i, split_segments>>

NextAsr ==
    \/ ReadSegment
    \/ StartMerge
    \/ MergeStep
    \/ MergeFinish
    \/ SplitStep
    \/ WriteSegments

SpecAsr == InitAsr /\ [][NextAsr]_vars

\* _merge_asr_segments lines 161-164: every call starts from new locals,
\* whatever the previous call left in its own.
FreshRun == [cur |-> None, conf_sum |-> 0, dur_sum |-> 0, merged |-> <<>>, why |-> <<>>]
StartOfRunKeepingLast(prev) == prev
StartOfRun(prev) == FreshRun

\* _merge_asr_segments lines 159-229: nothing to do for an empty list; else
\* the loop over the spans, then the last flush
RECURSIVE MergeLoop(_, _, _)
MergeLoop(acc, segs, config) ==
    IF segs = <<>> THEN acc
    ELSE MergeLoop(MergeOne(acc, Head(segs), config), Tail(segs), config)

MergeAsrSegments(prev, segs, config) ==
    IF segs = <<>>
    THEN FreshRun
    ELSE MergeLast(MergeLoop(StartOfRun(prev), segs, config))

\* _split_segments lines 231-236
SplitSegments(segs, config) ==
    Flatten([k \in 1..Len(segs) |-> SplitSegmentBySentence(segs[k], config)])

\* _split_segments(_merge_asr_segments(segments_all, config), config) called
\* a second time on the list given before; nothing is written
ConsolidateAgain ==
    /\ asr_pc = "done"
    /\ stage = "asr"
    /\ invocations = 0
    /\ \E after \in {MergeAsrSegments([cur |-> cur, conf_sum |-> conf_sum,
                                       dur_sum |-> dur_sum, merged |-> merged,
                                       why |-> flush_why],
                                      segments_all, audio_cfg)} :
          /\ cur' = after.cur
          /\ conf_sum' = after.conf_sum
          /\ dur_sum' = after.dur_sum
          /\ merged' = after.merged
          /\ flush_why' = after.why
          /\ split_segments' = SplitSegments(after.merged, audio_cfg)
          /\ split_i' = Len(after.merged) + 1
    /\ merge_i' = Len(segments_all) + 1
    /\ invocations' = invocations + 1
    /\ UNCHANGED <<al_vars, diar_vars, stage, text_vars>>
    /\ UNCHANGED <<asr_pc, audio_cfg, segments_all, asr_out>>

NextRerun ==
    \/ NextAsr
    \/ ConsolidateAgain

SpecRerun == InitAsr /\ [][NextRerun]_vars

(***************************************************************************)
(* The aligner: align_text_to_asr and align_text_to_words.                 *)
(***************************************************************************)
MaxTexts == 2      \* text segments given to the aligner
MaxUnits == 3      \* timed units (ASR segments or words) given to it

SegTexts ==
    { <<"a">>, <<"b", "b">>, <<"A", "b">>, <<"a", " ", "b", "b">>, <<"!">> }
UnitTexts ==
    { <<"a">>, <<"b", "b">>, <<"!">> }

\* config.alignment: min_score in units of 0.0001
AlignConfigs ==
    { [search_window |-> 120, max_combine |-> 6, min_score |-> 5500,
       advance_on_miss |-> 0, offset_window_segments |-> 20, offset_search_words |-> 400],
      [search_window |-> 0, max_combine |-> 0, min_score |-> 5500,
       advance_on_miss |-> 2, offset_window_segments |-> 1, offset_search_words |-> 400],
      [search_window |-> 2, max_combine |-> 2, min_score |-> 6667,
       advance_on_miss |-> 0, offset_window_segments |-> 0, offset_search_words |-> 0] }

SeqsUpTo(S, n) == UNION {[1..k -> S] : k \in 0..n}

\* the k-th unit of the transcript is spoken during second k
\* the text segments are records of build_text_segments
TextSegmentLists ==
    { [k \in 1..Len(ts) |->
          [segment_id |-> k, text_index |-> k - 1,
           role_type |-> IF ts[k] = <<"a">> THEN "DIALOGUE" ELSE "NARRATION",
           text |-> ts[k]]] :
          ts \in SeqsUpTo(SegTexts, MaxTexts) }
AsrSegmentLists ==
    { [k \in 1..Len(us) |-> [start |-> (k - 1) * Sec, end |-> k * Sec, text |-> us[k]]] :
          us \in SeqsUpTo(UnitTexts, MaxUnits) }
WordLists ==
    { [k \in 1..Len(us) |-> [start |-> (k - 1) * Sec, end |-> k * Sec, word |-> us[k]]] :
          us \in SeqsUpTo(UnitTexts, MaxUnits) }

InitAlign ==
    /\ al_pc = "start"
    /\ al_mode \in {"segments", "words"}
    /\ al_cfg \in AlignConfigs
    /\ text_segments \in TextSegmentLists
    /\ IF al_mode = "segments"
       THEN asr_segments \in AsrSegmentLists /\ words = <<>>
       ELSE words \in WordLists /\ asr_segments = <<>>
    /\ words_norm = <<>>
    /\ offset_idx = 0
    /\ cursor = 0
    /\ text_i = 1
    /\ results = <<>>
    /\ cursor_log = <<>>
    /\ match_log = <<>>
    /\ al_out = NoFile
    /\ AsrIdle
    /\ DiarIdle
    /\ stage = "align"
    /\ invocations = 0
    /\ TextIdle

\* align_text_to_asr lines 147-168: read, the degenerate inputs, the sort
PrepareSegments ==
    /\ al_pc = "start"
    /\ ~OutputExists(al_out)
    /\ al_mode = "segments"
    /\ IF text_segments = <<>> \/ asr_segments = <<>>
       THEN /\ al_out' = WriteJsonl(al_out, text_segments)
            /\ al_pc' = "done"
            /\ UNCHANGED asr_segments
       ELSE /\ asr_segments' = SortByStart(asr_segments)
            /\ al_pc' = "loop"
            /\ UNCHANGED al_out
    /\ UNCHANGED <<al_mode, al_cfg, text_segments, words, words_norm, offset_idx,
                   cursor, text_i, results, cursor_log, match_log>>
    /\ UNCHANGED <<asr_vars, diar_vars, resume_vars, text_vars>>

\* align_text_to_words lines 222-255: read, the degenerate inputs, the sort,
\* the filter and the offset
PrepareWords ==
    /\ al_pc = "start"
    /\ ~OutputExists(al_out)
    /\ al_mode = "words"
    /\ LET filtered == FilterWords(SortByStart(words))
           norms == [k \in 1..Len(filtered) |-> Normalize(filtered[k].word)]
       IN IF text_segments = <<>> \/ words = <<>>
          THEN /\ al_out' = WriteJsonl(al_out, text_segments)
               /\ al_pc' = "done"
               /\ UNCHANGED <<words, words_norm, offset_idx>>
          ELSE IF norms = <<>>
          THEN /\ al_out' = WriteJsonl(al_out, text_segments)
               /\ al_pc' = "done"
               /\ words' = filtered
               /\ words_norm' = norms
               /\ UNCHANGED offset_idx
          ELSE /\ words' = filtered
               /\ words_norm' = norms
               /\ offset_idx' = FindTextOffset(text_segments, norms, al_cfg)
               /\ al_pc' = "loop"
               /\ UNCHANGED al_out
    /\ UNCHANGED <<al_mode, al_cfg, text_segments, asr_segments, cursor, text_i,
                   results, cursor_log, match_log>>
    /\ UNCHANGED <<asr_vars, diar_vars, resume_vars, text_vars>>

\* align_text_to_asr lines 169-210: one iteration of the loop
AlignSegmentStep ==
    /\ al_pc = "loop"
    /\ al_mode = "segments"
    /\ text_i <= Len(text_segments)
    /\ LET seg == text_segments[text_i]
           match == BestMatchSegments(seg.text, asr_segments, cursor,
                                      Max2(1, al_cfg.search_window),
                                      Max2(1, al_cfg.max_combine))
       IN /\ IF IsHit(match, al_cfg.min_score)
             THEN /\ results' = Append(results, AlignedRecord(seg, match, asr_segments, al_mode))
                  /\ cursor' = CursorAfterMatch(match)
             ELSE /\ results' = Append(results, UnalignedRecord(seg, match, al_mode))
                  /\ cursor' = CursorAfterMiss(cursor, Len(asr_segments), al_cfg.advance_on_miss)
          /\ match_log' = Append(match_log, match)
    /\ cursor_log' = Append(cursor_log, cursor)
    /\ text_i' = text_i + 1
    /\ UNCHANGED <<al_pc, al_mode, al_cfg, text_segments, asr_segments, words,
                   words_norm, offset_idx, al_out>>
    /\ UNCHANGED <<asr_vars, diar_vars, resume_vars, text_vars>>

\* align_text_to_words lines 256-312: one iteration of the loop
AlignWordStep ==
    /\ al_pc = "loop"
    /\ al_mode = "words"
    /\ text_i <= Len(text_segments)
    /\ LET seg == text_segments[text_i]
           match == BestMatchWords(seg.text, words, words_norm, cursor,
                                   Max2(1, al_cfg.search_window),
                                   Max2(1, al_cfg.max_combine))
       IN IF text_i - 1 < offset_idx
          THEN /\ results' = Append(results, UnalignedRecord(seg, None, al_mode))
               /\ match_log' = Append(match_log, None)
               /\ UNCHANGED cursor
          ELSE /\ IF IsHit(match, al_cfg.min_score)
                  THEN /\ results' = Append(results, AlignedRecord(seg, match, words, al_mode))
                       /\ cursor' = CursorAfterMatch(match)
                  ELSE /\ results' = Append(results, UnalignedRecord(seg, match, al_mode))
                       /\ cursor' = CursorAfterMiss(cursor, Len(words_norm), al_cfg.advance_on_miss)
               /\ match_log' = Append(match_log, match)
    /\ cursor_log' = Append(cursor_log, cursor)
    /\ text_i' = text_i + 1
    /\ UNCHANGED <<al_pc, al_mode, al_cfg, text_segments, asr_segments, words,
                   words_norm, offset_idx, al_out>>
    /\ UNCHANGED <<asr_vars, diar_vars, resume_vars, text_vars>>

\* lines 212-213 and 314-315: write the results
WriteAlignment ==
    /\ al_pc = "loop"
    /\ text_i > Len(text_segments)
    /\ al_out' = WriteJsonl(al_out, results)
    /\ al_pc' = "done"
    /\ UNCHANGED <<al_mode, al_cfg, text_segments, asr_segments, words, words_norm,
                   offset_idx, cursor, text_i, results, cursor_log, match_log>>
    /\ UNCHANGED <<asr_vars, diar_vars, resume_vars, text_vars>>

NextAlign ==
    \/ PrepareSegments
    \/ PrepareWords
    \/ AlignSegmentStep
    \/ AlignWordStep
    \/ WriteAlignment

SpecAlign == InitAlign /\ [][NextAlign]_vars

(***************************************************************************)
(* The diarization merger: merge_asr_diarization.                          *)
(***************************************************************************)
MaxTurns == 2        \* diarization turns in diar_path
MaxMergeSegs == 2    \* ASR segments in asr_path

\* times in the two files: 0, 0.5 ms, 2 ms, 10 ms
DiarTimes == {0, Eps \div 2, 2 * Eps, 10 * Eps}
DiarTurns ==
    { [start |-> s, end |-> e, speaker |-> t[1], overlap |-> t[2]] :
          s \in DiarTimes, e \in DiarTimes,
          t \in {<<"SPEAKER_00", FALSE>>, <<"SPEAKER_01", FALSE>>, <<"SPEAKER_01", TRUE>>} }
WellFormedTurns == {d \in DiarTurns : d.start < d.end}
\* the ASR segments: zero-length, 0.5 ms, 10 ms, and a later one
MergeSpans ==
    { <<0, 0>>, <<0, Eps \div 2>>, <<0, 10 * Eps>>, <<2 * Eps, 10 * Eps>> }
MergeSegs ==
    { [start |-> p[1], end |-> p[2],
       text |-> IF p[1] = 0 THEN <<"a">> ELSE <<"b">>,
       confidence |-> IF p[2] = 10 * Eps THEN 90 ELSE 50] : p \in MergeSpans }
WellFormedSegs == {g \in MergeSegs : g.start <= g.end}
\* config.diarization.overlap_threshold, as <<numerator, denominator>>
DiarConfigs == { <<1, 5>>, <<3, 4>> }

OverlapOfSpan(a_start, a_end, b_start, b_end) ==
    Max2(0, Max2(a_end, b_end) - Min2(a_start, b_start))

\* _overlap
Overlap(a_start, a_end, b_start, b_end) ==
    Max2(0, Min2(a_end, b_end) - Max2(a_start, b_start))

\* the turns left in the order of the file
SortTurnsAsGiven(ds) == ds

\* line 28: list.sort is stable
RECURSIVE InsertTurn(_, _)
InsertTurn(sorted, d) ==
    IF sorted = <<>> THEN <<d>>
    ELSE IF Head(sorted).start <= d.start
         THEN <<Head(sorted)>> \o InsertTurn(Tail(sorted), d)
         ELSE <<d>> \o sorted

RECURSIVE SortTurns(_)
SortTurns(ds) ==
    IF ds = <<>> THEN <<>>
    ELSE InsertTurn(SortTurns(SubSeq(ds, 1, Len(ds) - 1)), ds[Len(ds)])

\* lines 36-52: the scan of the turns for one ASR segment
RECURSIVE ScanTurns(_, _, _, _, _)
ScanTurns(start, end, diars, k, acc) ==
    IF k > Len(diars) THEN acc
    ELSE LET diar == diars[k]
             ov == Overlap(start, end, diar.start, diar.end)
         IN IF diar.end < start THEN ScanTurns(start, end, diars, k + 1, acc)
            ELSE IF diar.start > end THEN acc
            ELSE IF ov <= 0 THEN ScanTurns(start, end, diars, k + 1, acc)
            ELSE ScanTurns(start, end, diars, k + 1,
                    [overlap_dur |-> IF diar.overlap THEN acc.overlap_dur + ov
                                     ELSE acc.overlap_dur,
                     best_overlap |-> IF ov > acc.best_overlap THEN ov
                                      ELSE acc.best_overlap,
                     best_speaker |-> IF ov > acc.best_overlap THEN diar.speaker
                                      ELSE acc.best_speaker])

\* str(n) for n >= 0, as a sequence of digit characters
RECURSIVE DecimalDigits(_)
DecimalDigits(n) ==
    LET d == <<"0", "1", "2", "3", "4", "5", "6", "7", "8", "9">>[(n % 10) + 1]
    IN IF n < 10 THEN <<d>> ELSE DecimalDigits(n \div 10) \o <<d>>

\* the format spec 06d: zero-padded to at least six digits
ZeroPad6(digits) ==
    [k \in 1..(6 - Len(digits)) |-> "0"] \o digits

SegmentIdUnpadded(idx) == <<"s", "e", "g", "_">> \o DecimalDigits(idx)

\* line 61: f"seg_{idx:06d}"
SegmentId(idx) == <<"s", "e", "g", "_">> \o ZeroPad6(DecimalDigits(idx))

\* the record when overlapped speech does not withhold the speaker
MergedRecordSpeakerKept(idx, seg, diars, threshold) ==
    LET start == seg.start
        end == seg.end
        seg_len == Max2(Eps, end - start)
        scan == ScanTurns(start, end, diars, 1,
                    [best_speaker |-> "UNKNOWN", best_overlap |-> 0, overlap_dur |-> 0])
        overlapped == scan.overlap_dur * threshold[2] >= threshold[1] * seg_len
        too_small == 10 * scan.best_overlap < seg_len
    IN [segment_id |-> SegmentId(idx), start |-> start, end |-> end, text |-> seg.text,
        confidence |-> seg.confidence,
        speaker_cluster |-> IF too_small THEN "UNKNOWN" ELSE scan.best_speaker,
        overlap |-> overlapped]

\* lines 32-69: the record built for the ASR segment with index idx
MergedRecord(idx, seg, diars, threshold) ==
    LET start == seg.start
        end == seg.end
        seg_len == Max2(Eps, end - start)
        scan == ScanTurns(start, end, diars, 1,
                    [best_speaker |-> "UNKNOWN", best_overlap |-> 0, overlap_dur |-> 0])
        \* overlap_dur / seg_len >= overlap_threshold
        overlapped == scan.overlap_dur * threshold[2] >= threshold[1] * seg_len
        \* best_overlap / seg_len < 0.1
        too_small == 10 * scan.best_overlap < seg_len
    IN [segment_id |-> SegmentId(idx), start |-> start, end |-> end, text |-> seg.text,
        confidence |-> seg.confidence,
        speaker_cluster |-> IF too_small \/ overlapped THEN "UNKNOWN"
                            ELSE scan.best_speaker,
        overlap |-> overlapped]

InitDiar ==
    /\ mg_pc = "sort"
    /\ overlap_threshold \in DiarConfigs
    /\ mg_asr \in SeqsUpTo(WellFormedSegs, MaxMergeSegs)
    /\ diar_segments \in SeqsUpTo(WellFormedTurns, MaxTurns)
    /\ mg_idx = 0
    /\ mg_merged = <<>>
    /\ mg_out = NoFile
    /\ AsrIdle
    /\ AlignIdle
    /\ stage = "merge"
    /\ invocations = 0
    /\ TextIdle

\* line 28
SortDiar ==
    /\ mg_pc = "sort"
    /\ ~OutputExists(mg_out)
    /\ diar_segments' = SortTurns(diar_segments)
    /\ mg_pc' = "merge"
    /\ UNCHANGED <<overlap_threshold, mg_asr, mg_idx, mg_merged, mg_out>>
    /\ UNCHANGED <<asr_vars, al_vars, resume_vars, text_vars>>

\* lines 31-69: one iteration of the loop over the ASR segments
MergeDiarStep ==
    /\ mg_pc = "merge"
    /\ mg_idx < Len(mg_asr)
    /\ mg_merged' = Append(mg_merged,
            MergedRecord(mg_idx, mg_asr[mg_idx + 1], diar_segments, overlap_threshold))
    /\ mg_idx' = mg_idx + 1
    /\ UNCHANGED <<mg_pc, overlap_threshold, mg_asr, diar_segments, mg_out>>
    /\ UNCHANGED <<asr_vars, al_vars, resume_vars, text_vars>>

\* lines 71-72
WriteMerged ==
    /\ mg_pc = "merge"
    /\ mg_idx = Len(mg_asr)
    /\ mg_out' = AppendJsonl(mg_out, mg_merged)
    /\ mg_pc' = "done"
    /\ UNCHANGED <<overlap_threshold, mg_asr, diar_segments, mg_idx, mg_merged>>
    /\ UNCHANGED <<asr_vars, al_vars, resume_vars, text_vars>>

NextDiar ==
    \/ SortDiar
    \/ MergeDiarStep
    \/ WriteMerged

SpecDiar == InitDiar /\ [][NextDiar]_vars

(***************************************************************************)
(* Stages invoked again: each stage returns at once when its output file   *)
(* exists, and build_segments_from_asr, the stage used without diarization. *)
(***************************************************************************)

\* merge.py lines 83-93: the record built for the ASR segment with index idx
BuiltRecord(idx, seg) ==
    [segment_id |-> SegmentId(idx), start |-> seg.start, end |-> seg.end,
     text |-> seg.text, confidence |-> seg.confidence,
     speaker_cluster |-> "UNKNOWN", overlap |-> FALSE]

InitBuild ==
    /\ mg_pc = "build"
    /\ overlap_threshold = None
    /\ mg_asr \in SeqsUpTo(WellFormedSegs, MaxMergeSegs)
    /\ diar_segments = <<>>
    /\ mg_idx = 0
    /\ mg_merged = <<>>
    /\ mg_out = NoFile
    /\ AsrIdle
    /\ AlignIdle
    /\ stage = "build"
    /\ invocations = 0
    /\ TextIdle

\* build_segments_from_asr, the whole call
BuildSegmentsFromAsr ==
    /\ mg_pc = "build"
    /\ IF OutputExists(mg_out)
       THEN UNCHANGED <<mg_merged, mg_out>>
       ELSE LET recs == [i \in 1..Len(mg_asr) |-> BuiltRecord(i - 1, mg_asr[i])]
            IN /\ mg_merged' = recs
               /\ mg_out' = AppendJsonl(mg_out, recs)
    /\ mg_pc' = "done"
    /\ UNCHANGED <<overlap_threshold, mg_asr, diar_segments, mg_idx>>
    /\ UNCHANGED <<asr_vars, al_vars, resume_vars, text_vars>>

\* run_asr lines 251-255 (and 284, 311: need_segments is false)
UseExistingAsr ==
    /\ asr_pc = "read"
    /\ OutputExists(asr_out)
    /\ asr_pc' = "done"
    /\ UNCHANGED <<audio_cfg, segments_all, merge_i, cur, conf_sum, dur_sum,
                   merged, flush_why, split_i, split_segments, asr_out>>
    /\ UNCHANGED <<al_vars, diar_vars, resume_vars, text_vars>>

\* align_text_to_asr lines 143-145
UseExistingAlignment ==
    /\ al_pc = "start"
    /\ OutputExists(al_out)
    /\ al_pc' = "done"
    /\ UNCHANGED <<al_mode, al_cfg, text_segments, asr_segments, words, words_norm,
                   offset_idx, cursor, text_i, results, cursor_log, match_log, al_out>>
    /\ UNCHANGED <<asr_vars, diar_vars, resume_vars, text_vars>>

\* merge_asr_diarization lines 21-23
UseExistingMerged ==
    /\ mg_pc = "sort"
    /\ OutputExists(mg_out)
    /\ mg_pc' = "done"
    /\ UNCHANGED <<overlap_threshold, mg_asr, diar_segments, mg_idx, mg_merged, mg_out>>
    /\ UNCHANGED <<asr_vars, al_vars, resume_vars, text_vars>>

\* the stage is called again: a new call starts with fresh locals, the
\* files are as the previous call left them
InvokeAsrAgain ==
    /\ stage = "asr"
    /\ asr_pc = "done"
    /\ invocations < MaxReruns
    /\ invocations' = invocations + 1
    /\ asr_pc' = "read"
    /\ segments_all' = <<>>
    /\ merge_i' = 1
    /\ cur' = None
    /\ conf_sum' = 0
    /\ dur_sum' = 0
    /\ merged' = <<>>
    /\ flush_why' = <<>>
    /\ split_i' = 1
    /\ split_segments' = <<>>
    /\ UNCHANGED <<audio_cfg, asr_out, stage>>
    /\ UNCHANGED <<al_vars, diar_vars, text_vars>>

InvokeAlignAgain ==
    /\ stage = "align"
    /\ al_pc = "done"
    /\ invocations < MaxReruns
    /\ invocations' = invocations + 1
    /\ al_pc' = "start"
    /\ words_norm' = <<>>
    /\ offset_idx' = 0
    /\ cursor' = 0
    /\ text_i' = 1
    /\ results' = <<>>
    /\ cursor_log' = <<>>
    /\ match_log' = <<>>
    /\ UNCHANGED <<al_mode, al_cfg, text_segments, asr_segments, words, al_out, stage>>
    /\ UNCHANGED <<asr_vars, diar_vars, text_vars>>

InvokeMergeAgain ==
    /\ stage \in {"merge", "build"}
    /\ mg_pc = "done"
    /\ invocations < MaxReruns
    /\ invocations' = invocations + 1
    /\ mg_pc' = IF stage = "merge" THEN "sort" ELSE "build"
    /\ mg_idx' = 0
    /\ mg_merged' = <<>>
    /\ UNCHANGED <<overlap_threshold, mg_asr, diar_segments, mg_out, stage>>
    /\ UNCHANGED <<asr_vars, al_vars, text_vars>>

\* the aligner and the merger start from inputs one shorter than their bounds
InitResume ==
    \/ InitAsr
    \/ /\ InitAlign
       /\ Len(text_segments) < MaxTexts
       /\ Len(asr_segments) < MaxUnits
       /\ Len(words) < MaxUnits
    \/ /\ InitDiar
       /\ Len(mg_asr) < MaxMergeSegs
       /\ Len(diar_segments) < MaxTurns
    \/ InitBuild

NextResume ==
    \/ NextAsr
    \/ NextAlign
    \/ NextDiar
    \/ BuildSegmentsFromAsr
    \/ UseExistingAsr
    \/ UseExistingAlignment
    \/ UseExistingMerged
    \/ InvokeAsrAgain
    \/ InvokeAlignAgain
    \/ InvokeMergeAgain

SpecResume == InitResume /\ [][NextResume]_vars

(***************************************************************************)
(* text_mode.py: parse_text_segments, add_pause_rules, build_text_segments. *)
(***************************************************************************)
MaxChars == 4        \* characters of the text given to parse_text_segments
MaxPauseSegs == 2    \* segments given to add_pause_rules called on its own

\* QUOTE_PAIRS: <<opening, closing>>
QUOTE_PAIRS ==
    << <<"\"", "\"">>, <<"U201C", "U201D">>, <<"U300C", "U300D">>, <<"U300E", "U300F">> >>
\* SENTENCE_END
SENTENCE_END == {"U3002", "UFF01", "UFF1F", ".", "!", "?", "U2026", "UFF1B", ";"}
\* what \s matches
TextSpace == {" ", "\t", "\n", "\r", "U3000"}

OpenQuotes == {QUOTE_PAIRS[k][1] : k \in 1..Len(QUOTE_PAIRS)}
CloseQuotes == {QUOTE_PAIRS[k][2] : k \in 1..Len(QUOTE_PAIRS)}
CloserOf(ch) == QUOTE_PAIRS[CHOOSE k \in 1..Len(QUOTE_PAIRS) : QUOTE_PAIRS[k][1] = ch][2]

\* text.replace("\r\n", "\n").replace("\r", "\n")
RECURSIVE ReplaceLineEnds(_)
ReplaceLineEnds(t) ==
    IF t = <<>> THEN <<>>
    ELSE IF Head(t) = "\r"
    THEN IF Len(t) >= 2 /\ t[2] = "\n"
         THEN <<"\n">> \o ReplaceLineEnds(Tail(Tail(t)))
         ELSE <<"\n">> \o ReplaceLineEnds(Tail(t))
    ELSE <<Head(t)>> \o ReplaceLineEnds(Tail(t))

\* re.sub(r"\s+", " ", text)
RECURSIVE CollapseSpace(_)
CollapseSpace(t) ==
    IF t = <<>> THEN <<>>
    ELSE IF Head(t) \in TextSpace
    THEN IF Len(t) >= 2 /\ t[2] \in TextSpace
         THEN CollapseSpace(Tail(t))
         ELSE <<" ">> \o CollapseSpace(Tail(t))
    ELSE <<Head(t)>> \o CollapseSpace(Tail(t))

\* _strip_ws
StripWs(t) == Strip(CollapseSpace(t))

\* flush(current_mode): the segment list after it
Flushed(segs, chars, current_mode) ==
    IF chars = <<>> \/ StripWs(chars) = <<>>
    THEN segs
    ELSE Append(segs, [role_type |-> current_mode, text |-> StripWs(chars)])

\* line 49 and line 55
Opens(ch, stk) == ch \in OpenQuotes /\ (stk = <<>> \/ CloserOf(ch) # stk[Len(stk)])
Closes(ch, stk) == ch \in CloseQuotes /\ stk # <<>> /\ ch = stk[Len(stk)]

\* line 58
ModeAfterCloseNarration(stk) == "NARRATION"
ModeAfterClose(stk) == IF stk = <<>> THEN "NARRATION" ELSE "DIALOGUE"

\* lines 67-71: the sentence end is held back when another one follows
FlushesAfter(ch, next_ch) ==
    ch \in SENTENCE_END /\ ~(next_ch # "" /\ next_ch \in SENTENCE_END)

\* config.text_dub; pauses in milliseconds.  punctuation_pause_sec is a dict:
\* here a function from its keys
TextDubConfigs ==
    { [default_pause_sec |-> 500, punctuation_pause_sec |-> [c \in {} |-> 0]],
      [default_pause_sec |-> 500,
       punctuation_pause_sec |-> [c \in {".", "?"} |-> IF c = "." THEN 800 ELSE 0]] }

\* lines 81-86
PauseOfDefault(text, cfg) == cfg.default_pause_sec
PauseOf(text, cfg) ==
    IF text # <<>> /\ text[Len(text)] \in DOMAIN cfg.punctuation_pause_sec
    THEN cfg.punctuation_pause_sec[text[Len(text)]]
    ELSE cfg.default_pause_sec

\* seg["pause_after_sec"] = pause
WithPause(seg, pause) ==
    [f \in (DOMAIN seg) \cup {"pause_after_sec"} |->
        IF f = "pause_after_sec" THEN pause ELSE seg[f]]

\* build_text_segments lines 102-111; idx counts from 0
TextRecord(idx, seg) ==
    [segment_id |-> SegmentId(idx), text_index |-> idx,
     role_type |-> seg.role_type, text |-> seg.text]

TextChars == {"a", " ", "\n", "\r", ".", "\"", "U201C", "U201D", "U300C", "U300D"}
PauseTexts == { <<>>, <<"a">>, <<"a", ".">>, <<"a", "?">>, <<"a", ".", " ">>, <<".", "a">> }

InitText ==
    /\ tx_pc = "parse"
    /\ tx_cfg \in TextDubConfigs
    /\ \E raw \in SeqsUpTo(TextChars, MaxChars) : tx_text = ReplaceLineEnds(raw)
    /\ tx_i = 0
    /\ buf = <<>>
    /\ mode = "NARRATION"
    /\ stack = <<>>
    /\ tx_segments = <<>>
    /\ tx_results = <<>>
    /\ pause_i = 1
    /\ tx_out = NoFile
    /\ tx_trace = NoTrace
    /\ AsrIdle
    /\ AlignIdle
    /\ DiarIdle
    /\ stage = "text"
    /\ invocations = 0

\* the history after a flush of the buffer `from`
TraceFlushed(trace, segs_before, segs_after, from) ==
    [trace EXCEPT !.buf_from = <<>>,
                  !.seg_from = IF Len(segs_after) > Len(segs_before)
                               THEN Append(@, from) ELSE @]

\* parse_text_segments lines 47-71: one iteration of the loop
ParseStep ==
    /\ tx_pc = "parse"
    /\ ~OutputExists(tx_out)
    /\ tx_i < Len(tx_text)
    /\ LET ch == tx_text[tx_i + 1]
           next_ch == IF tx_i + 1 < Len(tx_text) THEN tx_text[tx_i + 2] ELSE ""
           flushed == Flushed(tx_segments, buf, mode)
           seen(kind) == [tx_trace EXCEPT !.kinds = Append(@, kind),
                                          !.depths = Append(@, Len(stack))]
       IN /\ tx_i' = tx_i + 1
          /\ IF Opens(ch, stack)
             THEN /\ tx_segments' = flushed
                  /\ buf' = <<>>
                  /\ stack' = Append(stack, CloserOf(ch))
                  /\ mode' = "DIALOGUE"
                  /\ tx_trace' =
                        [TraceFlushed(seen("open"), tx_segments, flushed, tx_trace.buf_from)
                            EXCEPT !.stack_from = Append(@, tx_i + 1)]
             ELSE IF Closes(ch, stack)
             THEN /\ tx_segments' = flushed
                  /\ buf' = <<>>
                  /\ stack' = SubSeq(stack, 1, Len(stack) - 1)
                  /\ mode' = ModeAfterClose(stack')
                  /\ tx_trace' =
                        [TraceFlushed(seen("close"), tx_segments, flushed, tx_trace.buf_from)
                            EXCEPT !.stack_from = SubSeq(@, 1, Len(@) - 1),
                                   !.pairs = @ \cup {<<tx_trace.stack_from[Len(stack)],
                                                       tx_i + 1>>}]
             ELSE IF ch \in {"\n", "\r"}
             THEN /\ tx_segments' = flushed
                  /\ buf' = <<>>
                  /\ tx_trace' =
                        TraceFlushed(seen("break"), tx_segments, flushed, tx_trace.buf_from)
                  /\ UNCHANGED <<stack, mode>>
             ELSE LET chars == Append(buf, ch)
                      from == Append(tx_trace.buf_from, tx_i + 1)
                      after == Flushed(tx_segments, chars, mode)
                  IN /\ IF FlushesAfter(ch, next_ch)
                        THEN /\ tx_segments' = after
                             /\ buf' = <<>>
                             /\ tx_trace' = TraceFlushed(seen("char"), tx_segments, after, from)
                        ELSE /\ buf' = chars
                             /\ tx_trace' = [seen("char") EXCEPT !.buf_from = from]
                             /\ UNCHANGED tx_segments
                     /\ UNCHANGED <<stack, mode>>
    /\ UNCHANGED <<asr_vars, al_vars, diar_vars, resume_vars>>
    /\ UNCHANGED <<tx_pc, tx_cfg, tx_text, tx_results, pause_i, tx_out>>

\* parse_text_segments lines 73-74, then build_text_segments lines 102-111
ParseFinish ==
    /\ tx_pc = "parse"
    /\ ~OutputExists(tx_out)
    /\ tx_i >= Len(tx_text)
    /\ LET flushed == Flushed(tx_segments, buf, mode)
       IN /\ tx_segments' = flushed
          /\ buf' = <<>>
          /\ tx_trace' = TraceFlushed(tx_trace, tx_segments, flushed, tx_trace.buf_from)
          /\ tx_results' = [k \in 1..Len(flushed) |-> TextRecord(k - 1, flushed[k])]
    /\ pause_i' = 1
    /\ tx_pc' = "pause"
    /\ UNCHANGED <<asr_vars, al_vars, diar_vars, resume_vars>>
    /\ UNCHANGED <<tx_cfg, tx_text, tx_i, mode, stack, tx_out>>

\* add_pause_rules lines 80-87: one iteration of the loop
AddPauseStep ==
    /\ tx_pc = "pause"
    /\ pause_i <= Len(tx_results)
    /\ LET seg == tx_results[pause_i]
       IN tx_results' = [tx_results EXCEPT ![pause_i] = WithPause(seg, PauseOf(seg.text, tx_cfg))]
    /\ pause_i' = pause_i + 1
    /\ UNCHANGED <<asr_vars, al_vars, diar_vars, resume_vars>>
    /\ UNCHANGED <<tx_pc, tx_cfg, tx_text, tx_i, buf, mode, stack, tx_segments,
                   tx_out, tx_trace>>

\* build_text_segments lines 112-113
WriteTextSegments ==
    /\ tx_pc = "pause"
    /\ stage = "text"
    /\ pause_i > Len(tx_results)
    /\ tx_out' = WriteJsonl(tx_out, tx_results)
    /\ tx_pc' = "done"
    /\ UNCHANGED <<asr_vars, al_vars, diar_vars, resume_vars>>
    /\ UNCHANGED <<tx_cfg, tx_text, tx_i, buf, mode, stack, tx_segments, tx_results,
                   pause_i, tx_trace>>

NextText ==
    \/ ParseStep
    \/ ParseFinish
    \/ AddPauseStep
    \/ WriteTextSegments

SpecText == InitText /\ [][NextText]_vars

\* add_pause_rules called on a segment list of the caller's own
InitPause ==
    /\ tx_pc = "pause"
    /\ tx_cfg \in TextDubConfigs
    /\ tx_text = <<>>
    /\ tx_i = 0
    /\ buf = <<>>
    /\ mode = "NARRATION"
    /\ stack = <<>>
    /\ tx_segments = <<>>
    /\ \E ts \in SeqsUpTo(PauseTexts, MaxPauseSegs) :
          tx_results = [k \in 1..Len(ts) |-> [text |-> ts[k]]]
    /\ pause_i = 1
    /\ tx_out = NoFile
    /\ tx_trace = NoTrace
    /\ AsrIdle
    /\ AlignIdle
    /\ DiarIdle
    /\ stage = "pause"
    /\ invocations = 0

\* add_pause_rules line 87 was the last: the call returns
PauseReturn ==
    /\ tx_pc = "pause"
    /\ stage = "pause"
    /\ pause_i > Len(tx_results)
    /\ tx_pc' = "done"
    /\ UNCHANGED <<asr_vars, al_vars, diar_vars, resume_vars>>
    /\ UNCHANGED <<tx_cfg, tx_text, tx_i, buf, mode, stack, tx_segments, tx_results,
                   pause_i, tx_out, tx_trace>>

NextPause ==
    \/ AddPauseStep
    \/ PauseReturn

SpecPause == InitPause /\ [][NextPause]_vars

(***************************************************************************)
(* Properties of the consolidator.                                         *)
(***************************************************************************)
RECURSIVE NormLenSum(_)
NormLenSum(segs) ==
    IF segs = <<>> THEN 0 ELSE Len(Normalize(Head(segs).text)) + NormLenSum(Tail(segs))

Duration(seg) == RatSub(seg.end, seg.start)

\* C1: consolidation (merge pass, then split pass) never drops non-empty
\* text: the normalized lengths of the input spans and of the emitted
\* segments have the same sum.
C1_NoTextDropped ==
    asr_pc = "done" => NormLenSum(segments_all) = NormLenSum(split_segments)

\* a run in which spans were joined and a merged segment was cut into pieces
C1_Witness ==
    /\ asr_pc = "done"
    /\ Len(segments_all) = 2
    /\ Len(merged) = 1
    /\ Len(split_segments) >= 3
    /\ NormLenSum(segments_all) >= 3

\* C2: for spans sorted by start with end >= start, every emitted segment
\* has end >= start, and every emitted segment other than the very first
\* and the very last lasts at most max_segment_sec.
C2_EndAfterStartAndMaxDuration ==
    asr_pc = "done" =>
        \A k \in 1..Len(split_segments) :
            /\ RatLe(split_segments[k].start, split_segments[k].end)
            /\ (1 < k /\ k < Len(split_segments)) =>
                   RatLe(Duration(split_segments[k]), RatOfInt(audio_cfg.max_segment_sec))

\* C8: the emitted segment list is ordered by start ascending whenever the
\* input span list is, overlapping spans included.
C8_OutputSortedByStart ==
    asr_pc = "done" =>
        \A k \in 1..(Len(split_segments) - 1) :
            RatLe(split_segments[k].start, split_segments[k + 1].start)

\* C9 as stated: every emitted segment lasts at least min_segment_sec and
\* at most max_segment_sec.
C9_MinMaxDuration ==
    asr_pc = "done" =>
        \A k \in 1..Len(split_segments) :
            /\ RatLe(RatOfInt(audio_cfg.min_segment_sec), Duration(split_segments[k]))
            /\ RatLe(Duration(split_segments[k]), RatOfInt(audio_cfg.max_segment_sec))

\* C9 as amended: a segment that the merge pass closes because the next span
\* would make it longer than max_segment_sec, or because of the eager flush
\* at a sentence end, lasts at least min_segment_sec.  (A segment closed by
\* a pause or by the end of the input may be shorter, and so may a piece of
\* the split pass.)
C9_MergeClosesOnlyLongEnough ==
    \A k \in 1..Len(merged) :
        flush_why[k] \in {"length", "sentence"} =>
            merged[k].end - merged[k].start >= audio_cfg.min_segment_sec

\* both reasons occurred in one run
C9_Witness ==
    /\ asr_pc = "done"
    /\ \E k \in 1..Len(merged) : flush_why[k] = "length"
    /\ \E k \in 1..Len(split_segments) :
          RatLt(Duration(split_segments[k]), RatOfInt(audio_cfg.min_segment_sec))

\* C10: no emitted segment straddles a sentence boundary: after a
\* sentence-final mark its text holds closing quotes only.
C10_NoSentenceStraddle ==
    asr_pc = "done" =>
        \A k \in 1..Len(split_segments) :
            LET t == split_segments[k].text
            IN \A i \in 1..Len(t) :
                  t[i] \in END_PUNCT => \A j \in (i + 1)..Len(t) : t[j] \in END_QUOTES

\* a merged segment with a mark in the middle of its text was cut there
C10_Witness ==
    /\ asr_pc = "done"
    /\ \E m \in 1..Len(merged) :
          \E i \in 1..(Len(merged[m].text) - 1) :
              /\ merged[m].text[i] \in END_PUNCT
              /\ merged[m].text[i + 1] \notin END_QUOTES
    /\ \E k \in 1..Len(split_segments) :
          LET t == split_segments[k].text
          IN Len(t) >= 3 /\ t[Len(t) - 1] \in END_PUNCT /\ t[Len(t)] \in END_QUOTES

(***************************************************************************)
(* Properties of the aligner.                                              *)
(***************************************************************************)
StartIdx(r) == IF al_mode = "segments" THEN r.asr_start_idx ELSE r.word_start_idx
EndIdx(r) == IF al_mode = "segments" THEN r.asr_end_idx ELSE r.word_end_idx
TimedUnits == IF al_mode = "segments" THEN asr_segments ELSE words
UnitNorms ==
    IF al_mode = "segments"
    THEN [k \in 1..Len(asr_segments) |-> Normalize(asr_segments[k].text)]
    ELSE words_norm
UnitText(u) == IF al_mode = "segments" THEN u.text ELSE u.word
\* the cursor used for the text segment after the k-th
CursorAfter(k) == IF k < Len(cursor_log) THEN cursor_log[k + 1] ELSE cursor
EffectiveAdvance == Max2(0, al_cfg.advance_on_miss)
\* the k-th text segment was searched, and its best candidate is below min_score
MissedWithCandidate(k) ==
    /\ match_log[k] # None
    /\ ~MeetsMinScore(match_log[k].score, al_cfg.min_score)

\* C4: when every text segment is matched with a score of at least
\* min_score, the emitted start indices are non-decreasing in text order.
C4_StartIdxMonotone ==
    (\A k \in 1..Len(results) : results[k].aligned) =>
        \A k \in 1..(Len(results) - 1) : StartIdx(results[k]) <= StartIdx(results[k + 1])

C4_Witness ==
    /\ al_pc = "done"
    /\ Len(results) = 2
    /\ \A k \in 1..2 : results[k].aligned
    /\ StartIdx(results[2]) > 0

\* C5 as stated: a text segment whose best candidate scores below min_score
\* is emitted with aligned = false and a match_score below min_score, and
\* the cursor for the next text segment is the previous cursor plus
\* advance_on_miss.
C5_MissAdvancesExactly ==
    \A k \in 1..Len(results) :
        MissedWithCandidate(k) =>
            /\ results[k].aligned = FALSE
            /\ results[k].match_score < al_cfg.min_score
            /\ CursorAfter(k) = cursor_log[k] + EffectiveAdvance

\* C5 as amended: such a segment is emitted with aligned = false and the
\* best score rounded to four decimals as match_score, which is below
\* min_score + 0.00005, and the cursor for the next text segment is
\* min(number of timed units, previous cursor + advance_on_miss).
C5_MissAdvancesClamped ==
    \A k \in 1..Len(results) :
        MissedWithCandidate(k) =>
            /\ results[k].aligned = FALSE
            /\ results[k].match_score = Round4(match_log[k].score)
            /\ 2 * results[k].match_score < 2 * al_cfg.min_score + 1
            /\ CursorAfter(k) = Min2(Len(TimedUnits), cursor_log[k] + EffectiveAdvance)

\* a miss whose advance is cut at the end of the units, and a miss whose
\* rounded score reaches min_score
C5_Witness ==
    /\ al_pc = "done"
    /\ \E k \in 1..Len(results) :
          /\ MissedWithCandidate(k)
          /\ \/ cursor_log[k] + EffectiveAdvance > Len(TimedUnits)
             \/ results[k].match_score = al_cfg.min_score

\* the text segments are the timed units' own texts, in the same order
OwnTranscript ==
    /\ Len(text_segments) = Len(TimedUnits)
    /\ \A k \in 1..Len(text_segments) : text_segments[k].text = UnitText(TimedUnits[k])

\* C6: aligning the timed transcript against itself gives every text
\* segment a match_score of at least 0.98.
C6_Idempotence ==
    (al_pc = "done" /\ text_segments # <<>> /\ Len(results) = Len(text_segments)
        /\ OwnTranscript) =>
        \A k \in 1..Len(results) : results[k].match_score >= 9800

\* a run of at most max_combine units that starts at cursor c, lies inside
\* the search window and spells the normalized text
ExactRunAt(text, c) ==
    \E r \in 1..Max2(1, al_cfg.max_combine) :
        /\ c + r <= Min2(Len(UnitNorms), c + Max2(1, al_cfg.search_window))
        /\ Normalize(text) = JoinRange(UnitNorms, c, c + r - 1)

MatchedRangeTimes(k) ==
    /\ results[k].aligned
    /\ results[k].match_score >= 9000
    /\ results[k].start = TimedUnits[StartIdx(results[k]) + 1].start
    /\ results[k].end = TimedUnits[EndIdx(results[k]) + 1].end

\* C7 as stated: a text segment whose normalized text is the concatenation
\* of a run of units at the cursor is emitted aligned, with a match_score of
\* at least 0.9, the start of the first and the end of the last unit of the
\* matched range.
C7_ExactRunIsAligned ==
    \A k \in 1..Len(results) :
        ExactRunAt(text_segments[k].text, cursor_log[k]) => MatchedRangeTimes(k)

\* C7 as amended: the same, for a text segment whose normalized text is not
\* empty and, in word mode, whose index is not below the detected offset
\* (min_score being at most 0.98).
C7_NonEmptyExactRunIsAligned ==
    \A k \in 1..Len(results) :
        (/\ ExactRunAt(text_segments[k].text, cursor_log[k])
         /\ Normalize(text_segments[k].text) # <<>>
         /\ (al_mode = "words" => k - 1 >= offset_idx)
         /\ al_cfg.min_score <= 9800)
            => MatchedRangeTimes(k)

\* a text segment matched on a run of two units
C7_Witness ==
    /\ al_pc = "done"
    /\ \E k \in 1..Len(results) :
          /\ ExactRunAt(text_segments[k].text, cursor_log[k])
          /\ results[k].aligned
          /\ EndIdx(results[k]) = StartIdx(results[k]) + 1
          /\ results[k].end - results[k].start = 2 * Sec

(***************************************************************************)
(* Properties of the diarization merger.                                   *)
(***************************************************************************)
TurnOverlap(seg, d) == Overlap(seg.start, seg.end, d.start, d.end)

\* seg lies within the k-th turn, which is not flagged as overlapped
\* speech, and no other turn overlaps seg
WithinSingleTurn(seg, k) ==
    /\ diar_segments[k].start <= seg.start
    /\ seg.end <= diar_segments[k].end
    /\ ~diar_segments[k].overlap
    /\ \A j \in 1..Len(diar_segments) : j # k => TurnOverlap(seg, diar_segments[j]) = 0

NoTurnOverlaps(seg) ==
    \A j \in 1..Len(diar_segments) : TurnOverlap(seg, diar_segments[j]) = 0

\* the records written so far carry the segments' indices and times
RecordsFollowSegments ==
    /\ Len(mg_merged) = mg_idx
    /\ \A i \in 1..Len(mg_merged) :
          /\ mg_merged[i].segment_id = SegmentId(i - 1)
          /\ mg_merged[i].start = mg_asr[i].start
          /\ mg_merged[i].end = mg_asr[i].end

\* C3 as stated: an ASR segment [s,e] that lies within a single turn flagged
\* overlap = false gets that turn's speaker and overlap = false; an ASR
\* segment that no turn overlaps gets speaker_cluster = UNKNOWN.
C3_ContainedGetsSpeaker ==
    mg_pc # "sort" =>
        /\ RecordsFollowSegments
        /\ \A i \in 1..Len(mg_merged) :
              /\ \A k \in 1..Len(diar_segments) :
                    WithinSingleTurn(mg_asr[i], k) =>
                        /\ mg_merged[i].speaker_cluster = diar_segments[k].speaker
                        /\ mg_merged[i].overlap = FALSE
              /\ NoTurnOverlaps(mg_asr[i]) => mg_merged[i].speaker_cluster = "UNKNOWN"

\* C3 as amended: the first half holds for an ASR segment that lasts at
\* least 0.0001 s; a shorter one (e = s included) gets UNKNOWN. The second
\* half holds as stated, and every ASR segment gets a record.
C3_LastingContainedGetsSpeaker ==
    mg_pc # "sort" =>
        /\ RecordsFollowSegments
        /\ \A i \in 1..Len(mg_merged) :
              /\ \A k \in 1..Len(diar_segments) :
                    (WithinSingleTurn(mg_asr[i], k)
                        /\ 10 * (mg_asr[i].end - mg_asr[i].start) >= Eps) =>
                        /\ mg_merged[i].speaker_cluster = diar_segments[k].speaker
                        /\ mg_merged[i].overlap = FALSE
              /\ \A k \in 1..Len(diar_segments) :
                    (WithinSingleTurn(mg_asr[i], k)
                        /\ 10 * (mg_asr[i].end - mg_asr[i].start) < Eps) =>
                        /\ mg_merged[i].speaker_cluster = "UNKNOWN"
                        /\ mg_merged[i].overlap = FALSE
              /\ NoTurnOverlaps(mg_asr[i]) => mg_merged[i].speaker_cluster = "UNKNOWN"
              /\ diar_segments = <<>> => mg_merged[i].overlap = FALSE

\* a segment inside the second of two turns, given that turn's speaker
C3_Witness ==
    /\ mg_pc = "done"
    /\ Len(mg_out.items) = 1
    /\ Len(diar_segments) = 2
    /\ WithinSingleTurn(mg_asr[1], 2)
    /\ mg_asr[1].end > mg_asr[1].start
    /\ mg_out.items[1].speaker_cluster = diar_segments[2].speaker
    /\ mg_out.items[1].speaker_cluster # diar_segments[1].speaker

\* seg_00000i, written out for an index below ten
SixDigitId(i) ==
    <<"s", "e", "g", "_", "0", "0", "0", "0", "0">>
        \o << <<"0", "1", "2", "3", "4", "5", "6", "7", "8", "9">>[i + 1] >>

\* C11: the merger emits one record per ASR segment, in input order, with
\* segment_id seg_<index padded to six digits>, unique per record, and the
\* segment's start, end, text and confidence carried over unchanged.
C11_OneRecordPerSegment ==
    mg_pc = "done" =>
        /\ Len(mg_out.items) = Len(mg_asr)
        /\ \A i \in 1..Len(mg_out.items) :
              /\ mg_out.items[i].segment_id = SixDigitId(i - 1)
              /\ mg_out.items[i].start = mg_asr[i].start
              /\ mg_out.items[i].end = mg_asr[i].end
              /\ mg_out.items[i].text = mg_asr[i].text
              /\ mg_out.items[i].confidence = mg_asr[i].confidence
        /\ \A i, j \in 1..Len(mg_out.items) :
              i # j => mg_out.items[i].segment_id # mg_out.items[j].segment_id

\* two ASR segments of different text and confidence, given out of time
\* order, and two turns: two records
C11_Witness ==
    /\ mg_pc = "done"
    /\ Len(mg_asr) = 2
    /\ Len(diar_segments) = 2
    /\ mg_asr[1].start > mg_asr[2].start
    /\ mg_asr[1].text # mg_asr[2].text
    /\ mg_asr[1].confidence # mg_asr[2].confidence
    /\ Len(mg_out.items) = 2

\* the text-segment list is empty, or the timed-unit list is empty, or (word
\* mode) every word normalizes to the empty string
DegenerateInput ==
    \/ text_segments = <<>>
    \/ al_mode = "segments" /\ asr_segments = <<>>
    \/ al_mode = "words" /\ \A k \in 1..Len(words) : Normalize(words[k].word) = <<>>

\* C12: on a degenerate input the aligner returns without entering its
\* loop, and its output is exactly the input text-segment list, with no
\* record marked aligned = true.
C12_DegenerateInputsPassThrough ==
    (al_pc # "idle" /\ DegenerateInput) =>
        /\ al_pc \in {"start", "done"}
        /\ results = <<>>
        /\ al_pc = "done" =>
              /\ al_out.items = text_segments
              /\ \A k \in 1..Len(al_out.items) :
                    "aligned" \in DOMAIN al_out.items[k] => ~al_out.items[k].aligned

\* word mode, two text segments, no word left: the text segments come back
C12_Witness ==
    /\ al_pc = "done"
    /\ al_mode = "words"
    /\ Len(text_segments) = 2
    /\ words = <<>>
    /\ al_out.items = text_segments

\* C13: a text segment whose normalized text is empty is emitted with
\* aligned = false and match_score 0, no candidate is scored for it, and
\* it is given no matched range (no times, indices -1, no matched text).
C13_EmptyTextIsUnmatchable ==
    \A k \in 1..Len(results) :
        Normalize(text_segments[k].text) = <<>> =>
            /\ results[k].aligned = FALSE
            /\ results[k].match_score = 0
            /\ Scored(match_log[k]) = 0
            /\ match_log[k] = None
            /\ StartIdx(results[k]) = -1
            /\ EndIdx(results[k]) = -1
            /\ results[k].asr_text = <<>>
            /\ "start" \notin DOMAIN results[k]
            /\ "end" \notin DOMAIN results[k]

\* such a text segment met units that were still to be searched, and the
\* text segment after it was matched
C13_Witness ==
    /\ al_pc = "done"
    /\ Len(results) = 2
    /\ Normalize(text_segments[1].text) = <<>>
    /\ cursor_log[1] < Len(TimedUnits)
    /\ results[2].aligned
    /\ Scored(match_log[2]) >= 1

(***************************************************************************)
(* Properties of the stages' output files.                                 *)
(***************************************************************************)
\* C14: a stage invoked when its output file exists leaves the file as it
\* is: once written, asr_segments.jsonl, the alignment and the merged
\* segments never change again, however often the stage is invoked.
C14_ExistingOutputIsKept ==
    [][/\ asr_out.exists => asr_out' = asr_out
       /\ al_out.exists => al_out' = al_out
       /\ mg_out.exists => mg_out' = mg_out]_vars

\* build_segments_from_asr was invoked again twice on two ASR segments, and
\* its output file still holds two records
C14_Witness ==
    /\ stage = "build"
    /\ mg_pc = "done"
    /\ invocations = 2
    /\ Len(mg_asr) = 2
    /\ Len(mg_out.items) = 2


LastSpan == segments_all[merge_i - 1]
LastText == Strip(LastSpan.text)

\* the text ends with a sentence-final mark, or with one and a closing quote
EndsWithSentenceMark(text) ==
    /\ text # <<>>
    /\ \/ text[Len(text)] \in END_PUNCT
       \/ /\ Len(text) >= 2
          /\ text[Len(text)] \in END_QUOTES
          /\ text[Len(text) - 1] \in END_PUNCT

\* the last span was joined to an accumulator that is still open
AppendedAndOpen ==
    /\ asr_pc = "merge"
    /\ merge_i > 1
    /\ LastText # <<>>
    /\ cur # None
    /\ Len(cur.text) > Len(LastText)

\* C18: a span whose text ends with a sentence-final mark (and maybe a closing
\* quote) and whose appending brings the accumulator to min_segment_sec or
\* more does not leave the accumulator open: it is flushed at once.
C18_EagerFlushAtSentenceEnd ==
    (AppendedAndOpen /\ EndsWithSentenceMark(LastText))
        => cur.end - cur.start < audio_cfg.min_segment_sec

\* one iteration of the merge loop on a non-empty span, an accumulator open
MergeStepOnOpen ==
    /\ asr_pc = "merge"
    /\ asr_pc' = "merge"
    /\ merge_i' = merge_i + 1
    /\ cur # None
    /\ Strip(segments_all[merge_i].text) # <<>>

\* the accumulator was closed as it was and the span started a new one
BrokeBefore(seg) ==
    /\ Len(merged') = Len(merged) + 1
    /\ merged'[Len(merged')].start = cur.start
    /\ merged'[Len(merged')].end = cur.end
    /\ merged'[Len(merged')].text = cur.text
    /\ cur' # None
    /\ cur'.start = seg.start
    /\ cur'.end = seg.end
    /\ cur'.text = Strip(seg.text)

\* the span was joined to the accumulator, which ends where the span ends
Joined(seg) ==
    /\ IF cur' = None THEN Len(merged') = Len(merged) + 1 ELSE merged' = merged
    /\ LET acc == IF cur' = None THEN merged'[Len(merged')] ELSE cur'
       IN /\ acc.start = cur.start
          /\ acc.end = seg.end
          /\ acc.text = JoinText(cur.text, Strip(seg.text))

\* the break rule as stated: strictly longer than min_segment_sec, and the
\* accumulator's duration once the span is appended
StatedBreak(seg) ==
    \/ seg.start - cur.end > audio_cfg.merge_pause_sec
    \/ /\ cur.end - cur.start > audio_cfg.min_segment_sec
       /\ seg.end - cur.start > audio_cfg.max_segment_sec

\* the break rule with "at least" and the sum of the two durations
SumBreak(seg) ==
    \/ seg.start - cur.end > audio_cfg.merge_pause_sec
    \/ /\ cur.end - cur.start >= audio_cfg.min_segment_sec
       /\ (cur.end - cur.start) + Max2(0, seg.end - seg.start) > audio_cfg.max_segment_sec

\* C19 as stated: the accumulator is closed and a new one started exactly
\* when the gap exceeds merge_pause_sec, or the accumulator is longer than
\* min_segment_sec and would be longer than max_segment_sec with the span;
\* otherwise the span is appended and the accumulator ends at the span's end.
C19_BreakRuleAsStated ==
    [][MergeStepOnOpen =>
          LET seg == segments_all[merge_i]
          IN IF StatedBreak(seg) THEN BrokeBefore(seg) ELSE Joined(seg)]_vars

\* C19: the same with the accumulator at least min_segment_sec long and its
\* duration plus the span's own duration above max_segment_sec.
C19_BreakRule ==
    [][MergeStepOnOpen =>
          LET seg == segments_all[merge_i]
          IN IF SumBreak(seg) THEN BrokeBefore(seg) ELSE Joined(seg)]_vars

\* an accumulator of exactly min_segment_sec was closed for length
C19_Witness ==
    /\ asr_pc = "merge"
    /\ flush_why = <<"length">>
    /\ merged[1].end - merged[1].start = audio_cfg.min_segment_sec
    /\ cur # None
    /\ cur.start = merged[1].end

(***************************************************************************)
(* Properties of the split pass, parent by parent.                         *)
(***************************************************************************)
RatSame(a, b) == RatLe(a, b) /\ RatLe(b, a)

\* the pieces the split loop made of merged[split_i] in this step
NewPieces == SubSeq(split_segments', Len(split_segments) + 1, Len(split_segments'))

PartitionsParent(parent, pieces) ==
    LET n == Len(pieces)
        total_len == TotalLen([k \in 1..n |-> pieces[k].text])
    IN /\ n >= 1
       /\ RatSame(pieces[1].start, RatOfInt(parent.start))
       /\ \A k \in 2..n : RatSame(pieces[k].start, pieces[k - 1].end)
       /\ \A k \in 1..n :
             RatSame(Duration(pieces[k]),
                     <<(parent.end - parent.start) * Len(pieces[k].text), total_len>>)
       /\ RatSame(pieces[n].end, RatOfInt(parent.end))

\* C20: the pieces made of a merged segment start at the parent's start,
\* follow each other without a gap, last the parent's duration times their
\* share of the characters, and end at the parent's end.
C20_SplitTimingPartitionsParent ==
    [][(asr_pc = "split" /\ split_i' = split_i + 1)
          => PartitionsParent(merged[split_i], NewPieces)]_vars

(***************************************************************************)
(* Properties of the text mode.                                            *)
(***************************************************************************)
\* C16: add_pause_rules gives every segment a pause_after_sec: the pause
\* configured for the last character of its text when that character is a
\* key of punctuation_pause_sec, default_pause_sec otherwise, an empty text
\* included.
C16_PauseAfterEverySegment ==
    \A k \in 1..Len(tx_results) :
        (k < pause_i /\ tx_pc \in {"pause", "done"}) =>
            LET seg == tx_results[k]
                keys == DOMAIN tx_cfg.punctuation_pause_sec
            IN /\ "pause_after_sec" \in DOMAIN seg
               /\ IF seg.text = <<>>
                  THEN seg.pause_after_sec = tx_cfg.default_pause_sec
                  ELSE IF seg.text[Len(seg.text)] \in keys
                  THEN seg.pause_after_sec =
                           tx_cfg.punctuation_pause_sec[seg.text[Len(seg.text)]]
                  ELSE seg.pause_after_sec = tx_cfg.default_pause_sec

\* an empty text got the default, a text ending in a key its own pause
C16_Witness ==
    /\ tx_pc = "done"
    /\ stage = "pause"
    /\ Len(tx_results) = 2
    /\ tx_results[1].text = <<>>
    /\ tx_results[1].pause_after_sec = 500
    /\ tx_results[2].text = <<"a", "?">>
    /\ tx_results[2].pause_after_sec = 0

\* the characters a segment was made of, and the depth each was read at
SegChars(k) == [j \in 1..Len(tx_trace.seg_from[k]) |-> tx_text[tx_trace.seg_from[k][j]]]
SegDepths(k) == {tx_trace.depths[tx_trace.seg_from[k][j]] : j \in 1..Len(tx_trace.seg_from[k])}

\* positions of characters other than white space read inside / outside quotes
QuotedPositions ==
    {p \in 1..Len(tx_trace.kinds) :
        tx_trace.kinds[p] = "char" /\ tx_text[p] \notin TextSpace /\ tx_trace.depths[p] > 0}
UnquotedPositions ==
    {p \in 1..Len(tx_trace.kinds) :
        tx_trace.kinds[p] = "char" /\ tx_text[p] \notin TextSpace /\ tx_trace.depths[p] = 0}

RoleTypes == {tx_segments[k].role_type : k \in 1..Len(tx_segments)}

\* C17: a segment is DIALOGUE exactly when its characters were read with the
\* quote stack non-empty and NARRATION otherwise; a text with quoted and
\* unquoted characters yields both role types; no segment has an empty text;
\* the two quote characters of a matched pair are in no segment's text.
C17_RoleFollowsQuoteStack ==
    /\ Len(tx_trace.seg_from) = Len(tx_segments)
    /\ \A k \in 1..Len(tx_segments) :
          /\ tx_segments[k].text = StripWs(SegChars(k))
          /\ tx_segments[k].text # <<>>
          /\ tx_segments[k].role_type \in {"DIALOGUE", "NARRATION"}
          /\ tx_segments[k].role_type = "DIALOGUE" <=> (\A d \in SegDepths(k) : d > 0)
          /\ tx_segments[k].role_type = "NARRATION" <=> (\A d \in SegDepths(k) : d = 0)
          /\ \A pr \in tx_trace.pairs, j \in 1..Len(tx_trace.seg_from[k]) :
                tx_trace.seg_from[k][j] \notin {pr[1], pr[2]}
    /\ (tx_pc # "parse" /\ QuotedPositions # {} /\ UnquotedPositions # {})
          => RoleTypes = {"DIALOGUE", "NARRATION"}

\* a quote inside a quote was closed and the text went on in the outer one
C17_Witness ==
    /\ tx_pc = "done"
    /\ Cardinality(tx_trace.pairs) = 1
    /\ tx_trace.depths = <<0, 1, 2, 1>>
    /\ Len(tx_segments) = 1
    /\ tx_segments[1].role_type = "DIALOGUE"

\* after a sentence-final mark the text holds closing quotes only
SingleSentence(text) ==
    \A i \in 1..Len(text) :
        text[i] \in END_PUNCT => \A j \in (i + 1)..Len(text) : text[j] \in END_QUOTES

KeptWhole(parent, pieces) ==
    /\ Len(pieces) = 1
    /\ pieces[1].text = parent.text
    /\ RatSame(pieces[1].start, RatOfInt(parent.start))
    /\ RatSame(pieces[1].end, RatOfInt(parent.end))

\* C21: a merged segment whose text is a single sentence and which lasts at
\* most max_segment_sec leaves the split pass as one segment with the same
\* text, start and end.
C21_ShortSingleSentenceKept ==
    [][(/\ asr_pc = "split"
        /\ split_i' = split_i + 1
        /\ SingleSentence(merged[split_i].text)
        /\ merged[split_i].end - merged[split_i].start <= audio_cfg.max_segment_sec)
          => KeptWhole(merged[split_i], NewPieces)]_vars

\* C22: consolidation emits no empty unit: every emitted segment has a text
\* whose normalized form is not empty, spans of blank text and pieces of
\* punctuation only being dropped.
C22_NoEmptyUnit ==
    asr_pc = "done" =>
        \A k \in 1..Len(split_segments) :
            /\ Strip(split_segments[k].text) # <<>>
            /\ Normalize(split_segments[k].text) # <<>>

\* the summed overlap of seg with the turns flagged as overlapped speech
RECURSIVE FlaggedOverlap(_, _)
FlaggedOverlap(seg, ds) ==
    IF ds = <<>> THEN 0
    ELSE (IF Head(ds).overlap THEN TurnOverlap(seg, Head(ds)) ELSE 0)
            + FlaggedOverlap(seg, Tail(ds))

\* the largest overlap of seg with one turn
LargestOverlap(seg) ==
    SetMax({0} \cup {TurnOverlap(seg, diar_segments[k]) : k \in 1..Len(diar_segments)})

\* the decision rule for the record rec of seg, the segment lasting seg_len
DecisionRule(rec, seg, seg_len) ==
    /\ rec.overlap <=>
          FlaggedOverlap(seg, diar_segments) * overlap_threshold[2]
              >= overlap_threshold[1] * seg_len
    /\ rec.overlap => rec.speaker_cluster = "UNKNOWN"
    /\ rec.speaker_cluster # "UNKNOWN" =>
          /\ 10 * LargestOverlap(seg) >= seg_len
          /\ ~rec.overlap
          /\ \E k \in 1..Len(diar_segments) :
                /\ TurnOverlap(seg, diar_segments[k]) = LargestOverlap(seg)
                /\ diar_segments[k].speaker = rec.speaker_cluster

\* C23 as stated: the rule with the segment's duration end - start, for the
\* segments that have one, on the records of a finished run.
C23_DecisionRuleOnDuration ==
    mg_pc = "done" =>
        \A i \in 1..Len(mg_merged) :
            mg_asr[i].end > mg_asr[i].start =>
                DecisionRule(mg_merged[i], mg_asr[i], mg_asr[i].end - mg_asr[i].start)

\* C23: the rule with the duration taken as at least 0.001 s, for every
\* segment, on the records of a finished run.
C23_DecisionRuleOnFlooredDuration ==
    mg_pc = "done" =>
        \A i \in 1..Len(mg_merged) :
            DecisionRule(mg_merged[i], mg_asr[i],
                         Max2(Eps, mg_asr[i].end - mg_asr[i].start))

\* a record flagged at exactly the threshold, and one that got a speaker
C23_Witness ==
    /\ mg_pc = "done"
    /\ Len(mg_merged) = 2
    /\ mg_merged[1].overlap
    /\ FlaggedOverlap(mg_asr[1], diar_segments) * overlap_threshold[2]
          = overlap_threshold[1] * (mg_asr[1].end - mg_asr[1].start)
    /\ mg_merged[2].speaker_cluster = "SPEAKER_00"
    /\ Len(diar_segments) = 2


\* the scan that examines every turn, in the order of the list
RECURSIVE FullScan(_, _, _, _, _)
FullScan(start, end, diars, k, acc) ==
    IF k > Len(diars) THEN acc
    ELSE LET diar == diars[k]
             ov == Overlap(start, end, diar.start, diar.end)
         IN FullScan(start, end, diars, k + 1,
                [overlap_dur |-> IF diar.overlap THEN acc.overlap_dur + ov
                                 ELSE acc.overlap_dur,
                 best_overlap |-> IF ov > acc.best_overlap THEN ov ELSE acc.best_overlap,
                 best_speaker |-> IF ov > acc.best_overlap THEN diar.speaker
                                  ELSE acc.best_speaker])

\* the speaker and the flag decided from a full scan
FullScanDecision(seg, diars, threshold) ==
    LET seg_len == Max2(Eps, seg.end - seg.start)
        scan == FullScan(seg.start, seg.end, diars, 1,
                    [best_speaker |-> "UNKNOWN", best_overlap |-> 0, overlap_dur |-> 0])
        overlapped == scan.overlap_dur * threshold[2] >= threshold[1] * seg_len
        too_small == 10 * scan.best_overlap < seg_len
    IN [speaker_cluster |-> IF too_small \/ overlapped THEN "UNKNOWN"
                            ELSE scan.best_speaker,
        overlap |-> overlapped]

\* C24: every merged record of a finished run has the speaker_cluster and
\* the overlap flag that a scan of all the turns, in the merger's order,
\* decides for its segment.
C24_ShortCircuitEqualsFullScan ==
    mg_pc = "done" =>
        \A i \in 1..Len(mg_merged) :
            LET full == FullScanDecision(mg_asr[i], diar_segments, overlap_threshold)
            IN /\ mg_merged[i].speaker_cluster = full.speaker_cluster
               /\ mg_merged[i].overlap = full.overlap

\* the scan of the first segment stopped before a later turn, the scan of
\* the second skipped an earlier turn, and both segments got a speaker
C24_Witness ==
    /\ mg_pc = "done"
    /\ Len(mg_merged) = 2
    /\ Len(diar_segments) = 2
    /\ diar_segments[2].start > mg_asr[1].end
    /\ diar_segments[1].end < mg_asr[2].start
    /\ mg_merged[1].speaker_cluster = "SPEAKER_00"
    /\ mg_merged[2].speaker_cluster = "SPEAKER_01"


(***************************************************************************)
(* Properties of the match search and of the aligner's cursor.             *)
(***************************************************************************)
\* the candidates <<start index, end index>> of a search from cursor c
Candidates(c) ==
    LET end_limit == Min2(Len(TimedUnits), c + Max2(1, al_cfg.search_window))
    IN { p \in (0..Len(TimedUnits)) \X (0..Len(TimedUnits)) :
            /\ c <= p[1] /\ p[1] < end_limit
            /\ p[1] <= p[2] /\ p[2] < Min2(end_limit, p[1] + Max2(1, al_cfg.max_combine)) }

\* start index ascending and, for one start index, end index ascending
ScannedBefore(p, q) == p[1] < q[1] \/ (p[1] = q[1] /\ p[2] < q[2])

\* the score of candidate p for the k-th text segment
CandScore(k, p) ==
    Similarity(Normalize(text_segments[k].text),
               IF al_mode = "segments"
               THEN Normalize(JoinRange([u \in 1..Len(asr_segments) |-> asr_segments[u].text],
                                        p[1], p[2]))
               ELSE JoinRange(words_norm, p[1], p[2]))

ExactCandidates(k) == {p \in Candidates(cursor_log[k]) : IsExactEnough(CandScore(k, p))}

\* the candidate a search is to return, from the candidates cands, their
\* scores sc and those that are exact enough
ExpectedMatch(cands, sc, exact) ==
    IF exact # {}
    THEN CHOOSE p \in exact : \A q \in exact \ {p} : ScannedBefore(p, q)
    ELSE CHOOSE p \in cands :
            \A q \in cands \ {p} :
                \/ RatLt(sc[q], sc[p])
                \/ (~RatLt(sc[p], sc[q]) /\ ScannedBefore(p, q))

\* the search of the k-th text segment returned the candidate of the rule
FollowsSearchRule(k) ==
    LET cands == Candidates(cursor_log[k])
        m == match_log[k]
    IN \A sc \in {[p \in cands |-> CandScore(k, p)]} :
          \A exact \in {{p \in cands : IsExactEnough(sc[p])}} :
             \A p \in {ExpectedMatch(cands, sc, exact)} :
                /\ <<m.start_idx, m.end_idx>> = p
                /\ m.score = sc[p]
                /\ m.scored =
                      IF exact # {}
                      THEN Cardinality({q \in cands : ScannedBefore(q, p)}) + 1
                      ELSE Cardinality(cands)

\* C25: a search that scored candidates returns the first candidate in scan
\* order whose score is at least 0.98, having scored no candidate after it,
\* and, when there is none, the candidate of maximal score, the earliest in
\* scan order among equal scores, having scored every candidate.  Stated on
\* the searches of a finished run.
C25_EarlyExitOfSearch ==
    al_pc = "done" =>
        \A k \in 1..Len(match_log) : match_log[k] # None => FollowsSearchRule(k)

\* one search stopped at a candidate that was neither the first nor the
\* last, another found two candidates of the same maximal score
C25_Witness ==
    /\ al_pc = "done"
    /\ Len(match_log) = 2
    /\ match_log[1] # None
    /\ match_log[2] # None
    /\ \E k \in 1..2 :
          /\ ExactCandidates(k) # {}
          /\ match_log[k].scored > 1
          /\ match_log[k].scored < Cardinality(Candidates(cursor_log[k]))
    /\ \E k \in 1..2 :
          /\ ExactCandidates(k) = {}
          /\ \E q \in Candidates(cursor_log[k]) :
                /\ q # <<match_log[k].start_idx, match_log[k].end_idx>>
                /\ CandScore(k, q) = match_log[k].score
                /\ match_log[k].score[1] > 0


\* the matched range of the k-th result lies in the window of width window
\* from the cursor, holds at most combine units, and the cursor moves past it
WithinSearchBounds(k, window, combine) ==
    LET c == cursor_log[k]
        s == StartIdx(results[k])
        e == EndIdx(results[k])
    IN /\ c <= s
       /\ s <= e
       /\ e < Min2(Len(TimedUnits), c + window)
       /\ e - s + 1 <= combine
       /\ CursorAfter(k) = e + 1

\* C26 as stated: the bounds with the configured search_window and
\* max_combine.
C26_SearchBoundsAsConfigured ==
    \A k \in 1..Len(results) :
        results[k].aligned =>
            WithinSearchBounds(k, al_cfg.search_window, al_cfg.max_combine)

\* C26: the bounds with search_window and max_combine taken as at least 1.
C26_SearchBounds ==
    \A k \in 1..Len(results) :
        results[k].aligned =>
            WithinSearchBounds(k, Max2(1, al_cfg.search_window), Max2(1, al_cfg.max_combine))

\* a match on two units that starts after the cursor
C26_Witness ==
    /\ al_pc = "done"
    /\ \E k \in 1..Len(results) :
          /\ results[k].aligned
          /\ StartIdx(results[k]) > cursor_log[k]
          /\ EndIdx(results[k]) > StartIdx(results[k])
          /\ cursor = EndIdx(results[k]) + 1


\* the start index of the best window of window text segments, scored
\* against the first n_words normalized words: the lowest index among the
\* highest scores
BestWindowStart(window, n_words) ==
    LET texts == [k \in 1..Len(text_segments) |-> text_segments[k].text]
        audio == JoinRange(words_norm, 0, Min2(Len(words_norm), n_words) - 1)
        limit == Max2(0, Len(texts) - window)
        score(i) ==
            Similarity(Normalize(JoinRange(texts, i, Min2(Len(texts), i + window) - 1)),
                       audio)
    IN CHOOSE i \in 0..limit :
          \A sc \in {[j \in 0..limit |-> score(j)]} :
             \A j \in 0..limit :
                \/ RatLt(sc[j], sc[i])
                \/ (~RatLt(sc[i], sc[j]) /\ i <= j)

\* the k-th text segment was left out of the matching
LeftUnmatched(k) ==
    /\ results[k].aligned = FALSE
    /\ results[k].match_score = 0
    /\ results[k].word_start_idx = -1
    /\ results[k].word_end_idx = -1
    /\ match_log[k] = None
    /\ CursorAfter(k) = cursor_log[k]

\* the k-th text segment was searched from the cursor: the search scored
\* candidates unless the cursor was at the end or the text empty, and its
\* result decided the record
WentThroughMatching(k) ==
    /\ match_log[k] = None <=>
          \/ cursor_log[k] >= Len(words_norm)
          \/ Normalize(text_segments[k].text) = <<>>
    /\ match_log[k] # None => match_log[k].scored >= 1
    /\ results[k].aligned <=> IsHit(match_log[k], al_cfg.min_score)

\* the rule of the offset on a finished run of word mode that entered the
\* loop
OffsetRule(offset) ==
    (al_mode = "words" /\ al_pc = "done" /\ results # <<>>) =>
        /\ offset_idx = offset
        /\ \A k \in 1..Len(results) :
              IF k - 1 < offset THEN LeftUnmatched(k) ELSE WentThroughMatching(k)

\* C27 as stated: the offset is the start of the best window of
\* offset_window_segments text segments against the first
\* offset_search_words words.
C27_OffsetAsConfigured ==
    OffsetRule(BestWindowStart(al_cfg.offset_window_segments, al_cfg.offset_search_words))

\* C27: the same with offset_window_segments and offset_search_words taken
\* as at least 1.
C27_Offset ==
    OffsetRule(BestWindowStart(Max2(1, al_cfg.offset_window_segments),
                               Max2(1, al_cfg.offset_search_words)))

\* the second window is the best: the first text segment is left out with
\* words still to be searched, the second is matched from cursor 0
C27_Witness ==
    /\ al_pc = "done"
    /\ al_mode = "words"
    /\ Len(results) = 2
    /\ offset_idx = 1
    /\ LeftUnmatched(1)
    /\ Normalize(text_segments[1].text) # <<>>
    /\ results[2].aligned
    /\ cursor_log[2] = 0


\* the record out carries every field of the text segment seg
KeepsInputFields(seg, out) ==
    \A f \in DOMAIN seg : f \in DOMAIN out /\ out[f] = seg[f]

\* a record not aligned has no times and the indices -1
HasNoTimes(out) ==
    /\ "start" \notin DOMAIN out
    /\ "end" \notin DOMAIN out
    /\ StartIdx(out) = -1
    /\ EndIdx(out) = -1

\* C28: the records written are one per text segment, in the order of the
\* text segments, each with every field of its text segment; a record
\* with aligned = false has no start or end and the indices -1.
C28_OneResultPerTextSegment ==
    /\ \A k \in 1..Len(results) :
          /\ KeepsInputFields(text_segments[k], results[k])
          /\ ~results[k].aligned => HasNoTimes(results[k])
    /\ al_pc = "done" =>
          /\ Len(al_out.items) = Len(text_segments)
          /\ results # <<>> => al_out.items = results
          /\ \A k \in 1..Len(al_out.items) :
                KeepsInputFields(text_segments[k], al_out.items[k])

\* two text segments, the first matched and the second not
C28_Witness ==
    /\ al_pc = "done"
    /\ Len(text_segments) = 2
    /\ Len(results) = 2
    /\ al_out.items = results
    /\ results[1].aligned
    /\ ~results[2].aligned
    /\ results[1].role_type # results[2].role_type


\* the cursor lies between 0 and the number of timed units, and a text
\* segment met with the cursor at the end is emitted unmatched
CursorInRange ==
    al_pc \in {"loop", "done"} =>
        /\ 0 <= cursor
        /\ cursor <= Len(TimedUnits)
        /\ \A k \in 1..Len(results) :
              cursor_log[k] = Len(TimedUnits) =>
                  /\ results[k].aligned = FALSE
                  /\ results[k].match_score = 0

\* C29: the cursor never decreases (the cursor after each text segment is
\* at least the cursor before it) and stays within 0..number of timed
\* units; every text segment processed once the cursor has reached the
\* number of timed units is emitted with aligned = false and match_score 0.
C29_CursorInvariant ==
    /\ CursorInRange
    /\ \A k \in 1..Len(cursor_log) : cursor_log[k] <= CursorAfter(k)

\* the first text segment was matched on the last unit, the second was met
\* with the cursor at the end
C29_Witness ==
    /\ al_pc = "done"
    /\ Len(results) = 2
    /\ results[1].aligned
    /\ cursor_log[2] = Len(TimedUnits)
    /\ Normalize(text_segments[2].text) # <<>>
    /\ results[2].aligned = FALSE
    /\ cursor = Len(TimedUnits)


\* the text segments whose matched range holds the timed unit u (0-based)
AssignedTo(u) ==
    {k \in 1..Len(results) :
        results[k].aligned /\ StartIdx(results[k]) <= u /\ u <= EndIdx(results[k])}

\* C30: of two aligned text segments the earlier one's range ends before
\* the later one's begins, no timed unit belongs to two ranges, every
\* aligned result ends no earlier than it starts, and the aligned start
\* times do not decrease in text order.
C30_AlignedRangesDisjoint ==
    /\ \A i \in 1..Len(results) : \A j \in (i + 1)..Len(results) :
          (results[i].aligned /\ results[j].aligned) =>
              /\ EndIdx(results[i]) < StartIdx(results[j])
              /\ results[i].start <= results[j].start
    /\ \A u \in 0..(Len(TimedUnits) - 1) : Cardinality(AssignedTo(u)) <= 1
    /\ \A k \in 1..Len(results) :
          results[k].aligned => results[k].end >= results[k].start

\* two aligned text segments, the second on a range of two units
C30_Witness ==
    /\ al_pc = "done"
    /\ Len(results) = 2
    /\ results[1].aligned
    /\ results[2].aligned
    /\ EndIdx(results[2]) = StartIdx(results[2]) + 1
    /\ results[1].end <= results[2].start
    /\ \A u \in 0..2 : Cardinality(AssignedTo(u)) = 1

=============================================================================
